---- MODULE Spec2Model ----
(***************************************************************************)
(* Model of the CUB (Curtin University Brailler) control software.         *)
(*                                                                         *)
(* The supervisor (CUBrailler.py, main thread) dispatches string commands  *)
(* to the component threads (HeadTraverser, ToolSelector, Feeder, Input)   *)
(* over one pipe per component, counts the outstanding commands in tasks,  *)
(* and waits for acknowledgements in task_barrier.  The Embosser is driven *)
(* by the main thread itself.                                              *)
(*                                                                         *)
(* The supervisor is sequential code that blocks in recv(): it is modelled *)
(* by pc plus todo, the sequence of calls still to be made for the         *)
(* character being processed (the continuation of cub_loop's body).        *)
(***************************************************************************)
EXTENDS Integers, Sequences, FiniteSets, TLC

(***************************************************************************)
(* Bounds of the model.                                                    *)
(***************************************************************************)
\* number of characters the input device delivers in one run
MaxInput == 4
\* cells per line and lines per page of the loaded paper; the program has
\* Feeder.A4_CELLS = 20 and Feeder.A4_LINES = 27 (the Feeder is constructed
\* with simulate=True), the model a small sheet so that line and page wraps
\* happen within MaxInput characters
PaperCells == 2
PaperLines == 2
\* cells per line of the sheet in the Braille keyboard run: more than the
\* six characters of its input
RoundTripCells == 7
\* number of characters the input device delivers in a run without word
\* wrap: a word two cells longer than the line, and the space that prints it
MaxWordInput == 5
\* characters of the input device in the runs with a Feeder that drives its
\* hardware: enough for a line feed
HardwareInput == 3
\* the runs without hardware fault: lines per page, and the characters the
\* input device can deliver, enough to fill the page and go on
NominalLines == 1
NominalInput == 4
\* largest step count handed to move_steps in the step-by-step stepper runs
MaxSteps == 2
\* characters of the input device in the runs on a sheet of A4: enough
\* spaces to carry the head over the travel of the carriage
SpacesInput == 17

(***************************************************************************)
(* Program constants.                                                      *)
(***************************************************************************)
STEPS_BETWEEN_COLUMN == 16
STEPS_BETWEEN_CHAR == 29
MAX_TRAV_STEPS == 1200
STEPS_PER_TOOL == 6
A4_CELLS == 20
A4_LINES == 27
LINE_STEPS == 8

ACK == "ACK"
END_OF_INPUT == "END OF INPUT"
BACKSPACE == "BACKSPACE"
SPACE == "000000"

\* components in the insertion order of the components dictionary
ComponentOrder == <<"Embosser", "Traverser", "Selector", "Feeder", "Input">>
\* components that run in a thread of their own, in the order of threads
ThreadOrder == <<"Traverser", "Selector", "Feeder", "Input">>
Threads == {"Traverser", "Selector", "Feeder", "Input"}
Actuators == {"Traverser", "Selector", "Feeder"}

\* simulate flags passed to the constructors in initialise_components
SIMULATE == [c \in {"Embosser", "Traverser", "Selector", "Feeder"} |->
               c = "Feeder"]

\* the message of Input.thread_in for CUBClose raised by __take_input
CloseMsg == "Close Signalled from Keyboard Input - Keyboard Interrupt received"

\* cells the input may deliver (CUB braille format, column major)
Cells == {"000000", "100000"}

\* char[0:3] and char[3:6]
LeftHalf(char) ==
    CASE char = "000000" -> "000"
      [] char = "100000" -> "100"
      [] char = "011110" -> "011"
      [] char = "000001" -> "000"
      [] char = "110010" -> "110"
      [] char = "010100" -> "010"
      [] char = "011100" -> "011"
      [] char = CloseMsg -> "Clo"
      [] OTHER -> "???"
RightHalf(char) ==
    CASE char = "000000" -> "000"
      [] char = "100000" -> "000"
      [] char = "011110" -> "110"
      [] char = "000001" -> "001"
      [] char = "110010" -> "010"
      [] char = "010100" -> "100"
      [] char = "011100" -> "100"
      [] char = CloseMsg -> "se"
      [] OTHER -> "???"

\* the characters of a three character 0/1 string
BitsOf(index) ==
    CASE index = "000" -> <<0, 0, 0>>
      [] index = "100" -> <<1, 0, 0>>
      [] index = "010" -> <<0, 1, 0>>
      [] index = "110" -> <<1, 1, 0>>
      [] index = "001" -> <<0, 0, 1>>
      [] index = "101" -> <<1, 0, 1>>
      [] index = "011" -> <<0, 1, 1>>
      [] index = "111" -> <<1, 1, 1>>
      [] OTHER -> <<>>

\* ToolSelector.translate_tool: reverse the string, read it in base 2;
\* -1 stands for the ValueError of int(rev, 2)
translate_tool(index) ==
    LET b == BitsOf(index)
        rev == <<b[3], b[2], b[1]>>
    IN  IF b = <<>> THEN -1 ELSE rev[1] * 4 + rev[2] * 2 + rev[3]

\* str(n) for the counts the supervisor puts in a command, and int(s) back
NumStr == <<"1", "2", "3", "4", "5", "6", "7", "8", "9">>
str(n) == NumStr[n]
IsInt(s) == \E n \in 1..Len(NumStr) : NumStr[n] = s
int(s) == CHOOSE n \in 1..Len(NumStr) : NumStr[n] = s

VARIABLES
    \* ---- supervisor (CUBrailler.py) ----
    pc,            \* position of main()
    constructed,   \* components and threads dictionaries are filled
    compIdx,       \* index in ComponentOrder / ThreadOrder of the component
                   \* being confirmed or joined
    todo,          \* calls still to be made for the current character
    next_char,     \* cub_loop's next_char
    word_wrap, tasks, current_line, current_char, last_char, word_buffer,
    \* ---- pipes ----
    inq,           \* cub_pipe -> component pipe, per thread
    outq,          \* component pipe -> cub_pipe, per thread
    \* ---- component threads ----
    cstate,        \* "new", "startup", "recv", "busy", "waitrun", "reading", "dead"
    cur,           \* the parsed command a controller is executing
    exitFlag,      \* self.exit of each component
    runFlag,       \* Input.runFlag
    inputLeft,     \* characters the input device still has
    currentStep,   \* HeadTraverser.currentStep
    currentTool,   \* ToolSelector.currentTool
    \* ---- hardware interface ----
    stepperEmergency,  \* StepperMotor.emergencyFlag (class attribute)
    dcEmergency,       \* DCOutputDevice.emergencyFlag (class attribute)
    lastPulse,         \* what the last step drove: "none", "step" or "coil"
    enable,            \* the ENABLE pin of each controller's stepper is high
    dcDevice,          \* each DCOutputDevice object: its ENABLE pin, its stop
                       \* flag and the position of the pulse in progress on it
    stepper,           \* each StepperMotor object: its stop flag and the
                       \* position of the move_steps call in progress on it
    \* ---- history ----
    sent,          \* commands dispatched by send_task, per component
    acked,         \* ACKs received by task_barrier, per component
    closeSent,     \* CLOSE commands sent by close_components, per component
    errSeen,       \* task_barrier has raised OperationError
    confirmed,     \* components whose startup message was ACK
    initFailed,    \* a startup message other than ACK was seen
    placed,        \* a cell or space was placed on the current line
    boundary,      \* the backspace being processed was refused at line 1,
                   \* column 0
    pending,       \* commands dispatched by send_task whose answer the
                   \* supervisor has not received, per component, in order
    answered,      \* the commands whose answers are in outq, per component
    faults,        \* exceptions raised inside each controller thread
    rotation,      \* the last rotation the Selector asked of its stepper
    raised,        \* the OperationError cub_loop has caught for the character
                   \* it is processing
    events,        \* what the supervisor has done for the character it is
                   \* processing, in order: commands dispatched, barriers
                   \* returned, embosser activations
    before,        \* current_char and currentStep when cub_loop took the last
                   \* cell to print it on the current line (ok), else ok is FALSE
    lastStrike,    \* currentStep at the last Embosser.activate() of
                   \* print_col on the current line, -1 when there is none
    \* ---- session ----
    simulate,      \* the simulate flag each component was constructed with
    paper,         \* cells per line and lines per page the Feeder reports
    keys           \* keys the Braille keyboard process still has to send

vars == <<pc, constructed, compIdx, todo, next_char, word_wrap, tasks,
          current_line, current_char, last_char, word_buffer, inq, outq,
          cstate, cur, exitFlag, runFlag, inputLeft, currentStep,
          currentTool, stepperEmergency, dcEmergency, lastPulse, sent,
          acked, closeSent, errSeen, confirmed, initFailed, placed, boundary,
          pending, answered, faults, rotation, raised, events, enable,
          stepper, dcDevice, lastStrike, before, simulate, paper, keys>>

supVars == <<pc, constructed, compIdx, todo, next_char, word_wrap, tasks,
             current_line, current_char, last_char, word_buffer, sent,
             acked, closeSent, errSeen, confirmed, initFailed>>
posVars == <<current_line, current_char, last_char, word_buffer, word_wrap>>
initVars == <<confirmed, initFailed>>
histVars == <<sent, acked, closeSent, errSeen, initVars>>
ctrlVars == <<cstate, cur, exitFlag, currentStep, currentTool>>
inputVars == <<runFlag, inputLeft>>
flagVars == <<stepperEmergency, dcEmergency>>

\* the DC output devices the program drives: Embosser.embosser and
\* Feeder.PaperFeed
DCDevices == {"Embosser", "Feeder"}

\* a DCOutputDevice as constructed: ENABLE written low, stopFlag clear, no
\* pulse running
IdleDevice == [at |-> "idle", pin |-> FALSE, stopFlag |-> FALSE]

\* the steppers the program drives: HeadTraverser.traverseStepper and
\* ToolSelector.toolStepper
Steppers == {"Traverser", "Selector"}

\* a StepperMotor as constructed: stopFlag clear, no move_steps running.
\* at is the position in move_steps, count its argument, i the loop index,
\* pulsed the pulses written to the STEP pin, ret the value last returned;
\* the other fields are history: flagged, a flag was set by another thread
\* while the stepping loop ran, and after, the pulses written since then;
\* emergencyAtCall, the latch was set when move_steps was called;
\* stoppedDuring, stop() was called on this stepper between the call and
\* the return; otherStop, stop() was called on another stepper meanwhile;
\* staleStop, the stop flag was set when move_steps was called
IdleStepper ==
    [at |-> "idle", count |-> 0, i |-> 0, pulsed |-> 0, stopFlag |-> FALSE,
     ret |-> 0, returned |-> FALSE, flagged |-> FALSE, after |-> 0,
     emergencyAtCall |-> FALSE, stoppedDuring |-> FALSE,
     otherStop |-> FALSE, staleStop |-> FALSE]

\* no OperationError caught
NoError == [component |-> "", operation |-> "", message |-> ""]

\* no rotation asked yet
NoRotation == [from |-> 0, to |-> 0, steps |-> 0, dir |-> "NONE"]

\* no cell taken whose place a backspace is to return to
NoCell == [char |-> 0, step |-> 0, ok |-> FALSE]

\* the state after the module globals are set: the wrap mode is one of
\* wraps (get_args), the input device holds n characters
Session(wraps, n, sheet, script, sim) ==
    /\ pc = "start"
    /\ constructed = FALSE
    /\ compIdx = 1
    /\ todo = <<>>
    /\ next_char = ""
    /\ word_wrap \in wraps
    /\ tasks = [c \in Threads |-> 0]
    /\ current_line = 1
    /\ current_char = 0
    /\ last_char = ""
    /\ word_buffer = <<>>
    /\ inq = [c \in Threads |-> <<>>]
    /\ outq = [c \in Threads |-> <<>>]
    /\ cstate = [c \in Threads |-> "new"]
    /\ cur = [c \in Actuators |-> <<>>]
    /\ exitFlag = [c \in Threads |-> FALSE]
    /\ runFlag = FALSE
    /\ inputLeft = n
    /\ currentStep = MAX_TRAV_STEPS
    /\ currentTool = 5
    /\ stepperEmergency = FALSE
    /\ dcEmergency = FALSE
    /\ lastPulse = "none"
    /\ sent = [c \in Threads |-> 0]
    /\ acked = [c \in Threads |-> 0]
    /\ closeSent = [c \in Threads |-> 0]
    /\ errSeen = FALSE
    /\ confirmed = {}
    /\ initFailed = FALSE
    /\ placed = FALSE
    /\ boundary = FALSE
    /\ pending = [c \in Threads |-> <<>>]
    /\ answered = [c \in Actuators |-> <<>>]
    /\ faults = [c \in Actuators |-> 0]
    /\ rotation = NoRotation
    /\ events = <<>>
    /\ raised = NoError
    /\ enable = [c \in Actuators |-> FALSE]
    /\ stepper = [m \in Steppers |-> IdleStepper]
    /\ dcDevice = [d \in DCDevices |-> IdleDevice]
    /\ lastStrike = -1
    /\ before = NoCell
    /\ simulate = sim
    /\ paper = sheet
    /\ keys = script

\* the sheet of the simulated Feeder
Sheet == [size |-> PaperCells, length |-> PaperLines]

Init == Session(BOOLEAN, MaxInput, Sheet, <<>>, SIMULATE)

\* a session started with the -nowrap option
InitNoWrap == Session({FALSE}, MaxWordInput, Sheet, <<>>, SIMULATE)


(***************************************************************************)
(* Supervisor: CUBrailler.py                                               *)
(***************************************************************************)
\* one pending call of the supervisor: op names the function, s and n are
\* its string and integer arguments, t the command of a send_task
Op(o, str_arg, int_arg, task) ==
    [op |-> o, s |-> str_arg, n |-> int_arg, t |-> task]
HncOp(word_length) == Op("hnc", "", word_length, <<>>)
PCharOp(char) == Op("pchar", char, 0, <<>>)
PColOp(column) == Op("pcol", column, 0, <<>>)
SendOp(target, task) == Op("send", target, 0, task)
RecvOp(name, count) == Op("recv", name, count, <<>>)
ActivateOp == Op("activate", "", 0, <<>>)
BackOp(clear) == Op("back", IF clear THEN "clear" ELSE "noclear", 0, <<>>)
BackEndOp == Op("backend", "", 0, <<>>)

\* the part of the state send_task and the position logic work on
Sup == [inq |-> inq, tasks |-> tasks, sent |-> sent, pending |-> pending,
        events |-> events, line |-> current_line, char |-> current_char]

\* Feeder.get_paper_size / get_paper_length with SIMULATE set
get_paper_size == paper.size
get_paper_length == paper.length

\* Pipe.send and Pipe.recv of multiprocessing: first in, first out
pipe_send(q, msg) == Append(q, msg)

\* a pipe that hands out the newest message first
pipe_recv_newest(q) == [msg |-> q[Len(q)], rest |-> SubSeq(q, 1, Len(q) - 1)]

pipe_recv(q) == [msg |-> Head(q), rest |-> Tail(q)]

\* send_task(target, task): components[target].send(task); tasks[target] += 1
send_task(r, target, task) ==
    [r EXCEPT !.inq[target] = pipe_send(@, task),
              !.tasks[target] = @ + 1,
              !.sent[target] = @ + 1,
              !.pending[target] = Append(@, task),
              !.events = Append(@, <<target>> \o task)]

\* head_next_char with the overflow test off by one
head_next_char_late_wrap(r, word_length) ==
    IF r.char + word_length > get_paper_size + 1
    THEN LET r1 == send_task(r, "Traverser", <<"HOME">>)
             r2 == send_task(r1, "Selector", <<"HOME">>)
             r3 == [r2 EXCEPT !.char = 0]
         IN  IF r3.line = get_paper_length
             THEN LET r4 == send_task(r3, "Feeder", <<"PAPER", "EJECT">>)
                      r5 == send_task(r4, "Feeder", <<"PAPER", "LOAD">>)
                  IN  [r5 EXCEPT !.line = 1]
             ELSE LET r4 == send_task(r3, "Feeder", <<"FEED", "1", "POS">>)
                  IN  [r4 EXCEPT !.line = @ + 1]
    ELSE LET r1 == IF r.char # 0
                   THEN send_task(r, "Traverser", <<"MOVE", "CHAR", "POS">>)
                   ELSE r
         IN  [r1 EXCEPT !.char = @ + 1]

\* head_next_char(word_length)
head_next_char(r, word_length) ==
    IF r.char + word_length > get_paper_size
    THEN LET r1 == send_task(r, "Traverser", <<"HOME">>)
             r2 == send_task(r1, "Selector", <<"HOME">>)
             r3 == [r2 EXCEPT !.char = 0]
         IN  IF r3.line = get_paper_length
             THEN LET r4 == send_task(r3, "Feeder", <<"PAPER", "EJECT">>)
                      r5 == send_task(r4, "Feeder", <<"PAPER", "LOAD">>)
                  IN  [r5 EXCEPT !.line = 1]
             ELSE LET r4 == send_task(r3, "Feeder", <<"FEED", "1", "POS">>)
                  IN  [r4 EXCEPT !.line = @ + 1]
    ELSE LET r1 == IF r.char # 0
                   THEN send_task(r, "Traverser", <<"MOVE", "CHAR", "POS">>)
                   ELSE r
         IN  [r1 EXCEPT !.char = @ + 1]

\* print_char(char) for a space: the moves it dispatches at once
print_space(r, last) ==
    IF r.char = 0 /\ last # SPACE
    THEN r
    ELSE send_task(send_task(r, "Traverser", <<"MOVE", "COL", "POS">>),
                   "Traverser", <<"MOVE", "CHAR", "POS">>)

\* print_char that moves the head before the first column is embossed
print_char_calls_advance_first(char) ==
    << SendOp("Traverser", <<"MOVE", "COL", "POS">>),
       PColOp(LeftHalf(char)), PColOp(RightHalf(char)) >>

\* print_char that forgets to move to the second column
print_char_calls_one_place(char) ==
    << PColOp(LeftHalf(char)), PColOp(RightHalf(char)) >>

\* print_char(char) for a cell: the calls it makes
print_char_calls(char) ==
    << PColOp(LeftHalf(char)),
       SendOp("Traverser", <<"MOVE", "COL", "POS">>),
       PColOp(RightHalf(char)) >>

\* a barrier that leaves the Traverser out
BarrierTargets_NoTraverser == <<"Selector", "Feeder">>

\* the targets print_col passes to task_barrier
BarrierTargets == <<"Selector", "Traverser", "Feeder">>

\* a barrier that waits for one message more than the counter holds
task_barrier_group_overwait(targets, tk) ==
    [i \in 1..Len(targets) |-> RecvOp(targets[i], tk[targets[i]] + 1)]

\* task_barrier(targets): the group [name, count] built when it is called;
\* range(0, count) is empty for a count of zero
task_barrier_group(targets, tk) ==
    SelectSeq([i \in 1..Len(targets) |-> RecvOp(targets[i], tk[targets[i]])],
              LAMBDA o : o.n > 0)

\* an OperationError that does not name the component
task_barrier_raise_unnamed(name, msg) ==
    [component |-> "", operation |-> "", message |-> msg]

\* task_barrier: raise OperationError(name, "", msg)
task_barrier_raise(name, msg) ==
    [component |-> name, operation |-> "", message |-> msg]

\* backspace at the start of the page: the OperationError it raises
backspace_raise ==
    [component |-> "CUBBrailler", operation |-> "Backspace",
     message |-> "Unable to backspace at start of page, no action taken"]

\* a barrier that counts every message as an acknowledgement
task_barrier_count_any(count, msg) == count - 1

\* task_barrier: the counter of a component after one received message
task_barrier_count(count, msg) ==
    IF msg = ACK THEN count - 1 ELSE count

\* print_word(word): the calls it makes
print_word_calls(word) ==
    [k \in 1..(2 * Len(word) + 1) |->
        IF k = 2 * Len(word) + 1 THEN PCharOp(SPACE)
        ELSE IF k % 2 = 1 THEN HncOp(Len(word) - ((k - 1) \div 2))
        ELSE PCharOp(word[k \div 2])]

\* backspace(clear), first part: return to the end of the previous line
backspace_line(r) ==
    IF r.char = 0
    THEN LET r1 == send_task(r, "Feeder", <<"FEED", "1", "NEG">>)
             r2 == send_task(r1, "Selector", <<"HOME">>)
             r3 == send_task(r2, "Traverser",
                             <<"MOVE", "CHAR", "POS", str(get_paper_size)>>)
             r4 == send_task(r3, "Traverser",
                             <<"MOVE", "COL", "POS", str(get_paper_size)>>)
         IN  [r4 EXCEPT !.line = @ - 1, !.char = get_paper_size - 1]
    ELSE r

\* backspace(clear), last part: count down and move to the previous cell
backspace_end(r) ==
    LET r1 == [r EXCEPT !.char = @ - 1]
    IN  IF r1.char # 0
        THEN send_task(r1, "Traverser", <<"MOVE", "CHAR", "NEG">>)
        ELSE r1

\* close_components that leaves the Feeder out
close_components_no_feeder(q) ==
    [c \in Threads |-> IF c = "Feeder" THEN q[c]
                       ELSE Append(q[c], <<"CLOSE">>)]

\* close_components: the pipes after comp.send("CLOSE") to every component
\* other than the Embosser
close_components(q) == [c \in Threads |-> Append(q[c], <<"CLOSE">>)]

\* a startup check that accepts any message
startup_confirmed_any(msg) == TRUE

\* initialise_components: the test of a startup message
startup_confirmed(msg) == msg = ACK

\* DCOutputDevice.pulse / __pulse_for as called by Embosser.activate:
\* what the call drives
pulse(emergency) == IF emergency THEN "none" ELSE "coil"

SetSup(r) ==
    /\ inq' = r.inq
    /\ tasks' = r.tasks
    /\ sent' = r.sent
    /\ pending' = r.pending
    /\ events' = r.events
    /\ current_line' = r.line
    /\ current_char' = r.char

\* main: get_args raises ArgumentError before any component exists
ArgumentError ==
    /\ pc = "start"
    /\ pc' = "shutdown"
    /\ lastPulse' = "none"
    /\ UNCHANGED <<constructed, compIdx, todo, next_char, tasks, posVars,
                   histVars, inq, outq, ctrlVars, inputVars, flagVars>>
    /\ UNCHANGED <<placed, boundary, pending, answered, faults, rotation, paper, keys>>
    /\ UNCHANGED events
    /\ UNCHANGED raised
    /\ UNCHANGED <<enable, simulate>>
    /\ UNCHANGED stepper
    /\ UNCHANGED dcDevice
    /\ UNCHANGED lastStrike
    /\ UNCHANGED before

\* initialise_components up to and including start_threads
Initialise ==
    /\ pc = "start"
    /\ constructed' = TRUE
    /\ tasks' = [c \in Threads |-> 0]
    /\ cstate' = [c \in Threads |-> "startup"]
    /\ compIdx' = 1
    /\ pc' = "confirm"
    /\ lastPulse' = "none"
    /\ UNCHANGED <<todo, next_char, posVars, histVars, inq, outq, cur,
                   exitFlag, currentStep, currentTool, inputVars, flagVars>>
    /\ UNCHANGED <<placed, boundary, pending, answered, faults, rotation, paper, keys>>
    /\ UNCHANGED events
    /\ UNCHANGED raised
    /\ UNCHANGED <<enable, simulate>>
    /\ UNCHANGED stepper
    /\ UNCHANGED dcDevice
    /\ UNCHANGED lastStrike
    /\ UNCHANGED before

\* initialise_components, loop body for the Embosser: Embosser.startup()
ConfirmEmbosser ==
    /\ pc = "confirm"
    /\ ComponentOrder[compIdx] = "Embosser"
    /\ \E msg \in {ACK, "Embosser did not leave Home Position",
                   "Embosser not detected at Home Position at Initialisation"} :
          /\ lastPulse' = IF msg = "Embosser not detected at Home Position at Initialisation"
                          THEN "none" ELSE pulse(dcEmergency)
          /\ IF startup_confirmed(msg)
             THEN pc' = pc /\ compIdx' = compIdx + 1
             ELSE pc' = "shutdown" /\ compIdx' = compIdx
          /\ confirmed' = IF msg = ACK THEN confirmed \cup {"Embosser"}
                          ELSE confirmed
          /\ initFailed' = (initFailed \/ msg # ACK)
    /\ UNCHANGED <<constructed, todo, next_char, tasks, posVars, sent, acked,
                   closeSent, errSeen, inq, outq, ctrlVars, inputVars,
                   flagVars>>
    /\ UNCHANGED <<placed, boundary, pending, answered, faults, rotation, paper, keys>>
    /\ UNCHANGED events
    /\ UNCHANGED raised
    /\ UNCHANGED <<enable, simulate>>
    /\ UNCHANGED stepper
    /\ UNCHANGED dcDevice
    /\ UNCHANGED lastStrike
    /\ UNCHANGED before

\* initialise_components, loop body for a threaded component: comp.recv()
ConfirmThread ==
    /\ pc = "confirm"
    /\ ComponentOrder[compIdx] # "Embosser"
    /\ LET name == ComponentOrder[compIdx] IN
       /\ outq[name] # <<>>
       /\ outq' = [outq EXCEPT ![name] = Tail(@)]
       /\ IF startup_confirmed(Head(outq[name]))
          THEN IF compIdx = Len(ComponentOrder)
               THEN pc' = "enter" /\ compIdx' = compIdx
               ELSE pc' = pc /\ compIdx' = compIdx + 1
          ELSE pc' = "shutdown" /\ compIdx' = compIdx
       /\ confirmed' = IF Head(outq[name]) = ACK THEN confirmed \cup {name}
                       ELSE confirmed
       /\ initFailed' = (initFailed \/ Head(outq[name]) # ACK)
    /\ lastPulse' = "none"
    /\ UNCHANGED <<constructed, todo, next_char, tasks, posVars, sent, acked,
                   closeSent, errSeen, inq, ctrlVars, inputVars, flagVars>>
    /\ UNCHANGED <<placed, boundary, pending, answered, faults, rotation, paper, keys>>
    /\ UNCHANGED events
    /\ UNCHANGED raised
    /\ UNCHANGED <<enable, simulate>>
    /\ UNCHANGED stepper
    /\ UNCHANGED dcDevice
    /\ UNCHANGED lastStrike
    /\ UNCHANGED before

\* cub_loop, before the loop: reset last_char and word_buffer, start_input()
CubLoopEnter ==
    /\ pc = "enter"
    /\ last_char' = ""
    /\ word_buffer' = <<>>
    /\ runFlag' = TRUE
    /\ pc' = "loop"
    /\ lastPulse' = "none"
    /\ UNCHANGED <<constructed, compIdx, todo, next_char, tasks, word_wrap,
                   current_line, current_char, histVars, inq, outq, ctrlVars,
                   inputLeft, flagVars>>
    /\ UNCHANGED <<placed, boundary, pending, answered, faults, rotation, paper, keys>>
    /\ UNCHANGED events
    /\ UNCHANGED raised
    /\ UNCHANGED <<enable, simulate>>
    /\ UNCHANGED stepper
    /\ UNCHANGED dcDevice
    /\ UNCHANGED lastStrike
    /\ UNCHANGED before

\* cub_loop: receive the next character and choose what to do with it
\* the Traverser has carried out every task sent to it
TraverserSettled ==
    inq["Traverser"] = <<>> /\ cur["Traverser"] = <<>>

\* cub_loop in word-wrap mode taking character c: the position at which a
\* cell is taken that head_next_char() will keep on the current line
cell_taken(c) ==
    IF c = BACKSPACE
    THEN IF last_char \in Cells THEN before ELSE NoCell
    ELSE IF /\ c \in Cells /\ word_wrap /\ TraverserSettled
            /\ current_char + 1 <= get_paper_size
    THEN [char |-> current_char, step |-> currentStep, ok |-> TRUE]
    ELSE NoCell

CubLoopRecv ==
    /\ pc = "loop"
    /\ outq["Input"] # <<>>
    /\ LET c == Head(outq["Input"]) IN
       /\ next_char' = c
       /\ outq' = [outq EXCEPT !["Input"] = Tail(@)]
       /\ pc' = "exec"
       /\ IF c = END_OF_INPUT
          THEN todo' = <<>> /\ word_buffer' = word_buffer
          ELSE IF c = BACKSPACE
          THEN todo' = <<BackOp(last_char # SPACE)>> /\ word_buffer' = word_buffer
          ELSE IF ~word_wrap
          THEN IF c = SPACE
               THEN todo' = print_word_calls(word_buffer)
                    /\ word_buffer' = word_buffer
               ELSE todo' = <<>> /\ word_buffer' = Append(word_buffer, c)
          ELSE todo' = <<HncOp(1), PCharOp(c)>> /\ word_buffer' = word_buffer
    /\ lastPulse' = "none"
    /\ UNCHANGED <<constructed, compIdx, tasks, word_wrap, current_line,
                   current_char, last_char, histVars, inq, ctrlVars,
                   inputVars, flagVars>>
    /\ boundary' = FALSE
    /\ UNCHANGED <<placed, pending, answered, faults, rotation, paper, keys>>
    /\ events' = <<>>
    /\ UNCHANGED raised
    /\ UNCHANGED <<enable, simulate>>
    /\ UNCHANGED stepper
    /\ UNCHANGED dcDevice
    /\ UNCHANGED lastStrike
    /\ before' = cell_taken(Head(outq["Input"]))

\* cub_loop, end of the loop body: last_char = next_char, then the loop test
CubLoopNext ==
    /\ pc = "exec"
    /\ todo = <<>>
    /\ last_char' = next_char
    /\ pc' = IF next_char = END_OF_INPUT THEN "shutdown" ELSE "loop"
    /\ lastPulse' = "none"
    /\ UNCHANGED <<constructed, compIdx, todo, next_char, tasks, word_wrap,
                   current_line, current_char, word_buffer, histVars, inq,
                   outq, ctrlVars, inputVars, flagVars>>
    /\ UNCHANGED <<placed, boundary, pending, answered, faults, rotation, paper, keys>>
    /\ events' = <<>>
    /\ raised' = NoError
    /\ UNCHANGED <<enable, simulate>>
    /\ UNCHANGED stepper
    /\ UNCHANGED dcDevice
    /\ UNCHANGED lastStrike
    /\ UNCHANGED before

\* the supervisor is about to make the call o
AtOp(o) == pc = "exec" /\ todo # <<>> /\ Head(todo).op = o

HeadNextChar ==
    /\ AtOp("hnc")
    /\ SetSup(head_next_char(Sup, Head(todo).n))
    /\ todo' = Tail(todo)
    /\ lastPulse' = "none"
    /\ UNCHANGED <<pc, constructed, compIdx, next_char, word_wrap, last_char,
                   word_buffer, acked, closeSent, errSeen, initVars, outq,
                   ctrlVars,
                   inputVars, flagVars>>
    /\ placed' = IF current_char + Head(todo).n > get_paper_size THEN FALSE
                 ELSE placed
    /\ UNCHANGED <<boundary, answered, faults, rotation, paper, keys>>
    /\ UNCHANGED raised
    /\ UNCHANGED <<enable, simulate>>
    /\ UNCHANGED stepper
    /\ UNCHANGED dcDevice
    /\ lastStrike' = IF current_char + Head(todo).n > get_paper_size THEN -1
                     ELSE lastStrike
    /\ UNCHANGED before

PrintChar ==
    /\ AtOp("pchar")
    /\ IF Head(todo).s = SPACE
       THEN /\ SetSup(print_space(Sup, last_char))
            /\ todo' = Tail(todo)
       ELSE /\ SetSup(Sup)
            /\ todo' = print_char_calls(Head(todo).s) \o Tail(todo)
    /\ lastPulse' = "none"
    /\ UNCHANGED <<pc, constructed, compIdx, next_char, word_wrap, last_char,
                   word_buffer, acked, closeSent, errSeen, initVars, outq,
                   ctrlVars,
                   inputVars, flagVars>>
    /\ placed' = IF Head(todo).s = SPACE THEN (placed \/ sent' # sent) ELSE TRUE
    /\ UNCHANGED <<boundary, answered, faults, rotation, paper, keys>>
    /\ UNCHANGED raised
    /\ UNCHANGED <<enable, simulate>>
    /\ UNCHANGED stepper
    /\ UNCHANGED dcDevice
    /\ UNCHANGED lastStrike
    /\ UNCHANGED before

\* a send_task call made between two print_col calls
SendTask ==
    /\ AtOp("send")
    /\ SetSup(send_task(Sup, Head(todo).s, Head(todo).t))
    /\ todo' = Tail(todo)
    /\ lastPulse' = "none"
    /\ UNCHANGED <<pc, constructed, compIdx, next_char, word_wrap, last_char,
                   word_buffer, acked, closeSent, errSeen, initVars, outq,
                   ctrlVars,
                   inputVars, flagVars>>
    /\ UNCHANGED <<placed, boundary, answered, faults, rotation, paper, keys>>
    /\ UNCHANGED raised
    /\ UNCHANGED <<enable, simulate>>
    /\ UNCHANGED stepper
    /\ UNCHANGED dcDevice
    /\ UNCHANGED lastStrike
    /\ UNCHANGED before

\* print_col(column): send_task, then task_barrier builds its group
PrintCol ==
    /\ AtOp("pcol")
    /\ LET r == send_task(Sup, "Selector", <<"MOVE", Head(todo).s>>) IN
       /\ SetSup(r)
       /\ todo' = task_barrier_group(BarrierTargets, r.tasks)
                    \o <<ActivateOp>> \o Tail(todo)
    /\ lastPulse' = "none"
    /\ UNCHANGED <<pc, constructed, compIdx, next_char, word_wrap, last_char,
                   word_buffer, acked, closeSent, errSeen, initVars, outq,
                   ctrlVars,
                   inputVars, flagVars>>
    /\ UNCHANGED <<placed, boundary, answered, faults, rotation, paper, keys>>
    /\ UNCHANGED raised
    /\ UNCHANGED <<enable, simulate>>
    /\ UNCHANGED stepper
    /\ UNCHANGED dcDevice
    /\ UNCHANGED lastStrike
    /\ UNCHANGED before

\* task_barrier: one components[name].recv() of the inner loop
BarrierRecv ==
    /\ AtOp("recv")
    /\ LET name == Head(todo).s
           msg == Head(outq[name])
       IN
       /\ outq[name] # <<>>
       /\ outq' = [outq EXCEPT ![name] = Tail(@)]
       /\ tasks' = [tasks EXCEPT ![name] = task_barrier_count(@, msg)]
       /\ IF msg = ACK
          THEN /\ acked' = [acked EXCEPT ![name] = @ + 1]
               /\ errSeen' = errSeen
               /\ todo' = IF Head(todo).n = 1
                          THEN Tail(todo)
                          ELSE <<RecvOp(name, Head(todo).n - 1)>> \o Tail(todo)
          ELSE /\ acked' = acked
               /\ errSeen' = TRUE
               /\ todo' = <<>>
    /\ lastPulse' = "none"
    /\ UNCHANGED <<pc, constructed, compIdx, next_char, posVars, sent,
                   closeSent, initVars, inq, ctrlVars, inputVars, flagVars>>
    /\ pending' = [pending EXCEPT ![Head(todo).s] = Tail(@)]
    /\ answered' = [answered EXCEPT ![Head(todo).s] = Tail(@)]
    /\ UNCHANGED <<placed, boundary, faults, rotation, paper, keys>>
    /\ events' = IF Head(outq[Head(todo).s]) = ACK /\ Head(todo).n = 1
                     /\ (Len(todo) = 1 \/ todo[2].op # "recv")
                  THEN Append(events, <<"BARRIER">>)
                  ELSE events
    /\ raised' = IF Head(outq[Head(todo).s]) = ACK THEN raised
                  ELSE task_barrier_raise(Head(todo).s, Head(outq[Head(todo).s]))
    /\ UNCHANGED <<enable, simulate>>
    /\ UNCHANGED stepper
    /\ UNCHANGED dcDevice
    /\ UNCHANGED lastStrike
    /\ UNCHANGED before

\* print_col, after the barrier: components['Embosser'].activate()
Activate ==
    /\ AtOp("activate")
    /\ lastPulse' = pulse(dcEmergency)
    /\ todo' = Tail(todo)
    /\ UNCHANGED <<pc, constructed, compIdx, next_char, tasks, posVars,
                   histVars, inq, outq, ctrlVars, inputVars, flagVars>>
    /\ UNCHANGED <<placed, boundary, pending, answered, faults, rotation, paper, keys>>
    /\ events' = Append(events, <<"ACTIVATE">>)
    /\ UNCHANGED raised
    /\ UNCHANGED <<enable, simulate>>
    /\ UNCHANGED stepper
    /\ UNCHANGED dcDevice
    /\ lastStrike' = currentStep
    /\ UNCHANGED before

\* backspace(clear) up to its first blocking call
Backspace ==
    /\ AtOp("back")
    /\ IF current_char = 0 /\ current_line = 1
       THEN /\ SetSup(Sup)
            /\ todo' = <<>>
       ELSE /\ SetSup(backspace_line(Sup))
            /\ todo' = (IF Head(todo).s = "clear"
                        THEN << PColOp("000"),
                                SendOp("Traverser", <<"MOVE", "COL", "NEG">>),
                                PColOp("000"), BackEndOp >>
                        ELSE << SendOp("Traverser", <<"MOVE", "COL", "NEG">>),
                                BackEndOp >>) \o Tail(todo)
    /\ lastPulse' = "none"
    /\ UNCHANGED <<pc, constructed, compIdx, next_char, word_wrap, last_char,
                   word_buffer, acked, closeSent, errSeen, initVars, outq,
                   ctrlVars,
                   inputVars, flagVars>>
    /\ boundary' = (current_char = 0 /\ current_line = 1)
    /\ placed' = IF current_char = 0 /\ current_line = 1 THEN placed ELSE TRUE
    /\ UNCHANGED <<answered, faults, rotation, paper, keys>>
    /\ raised' = IF current_char = 0 /\ current_line = 1 THEN backspace_raise
                  ELSE raised
    /\ UNCHANGED <<enable, simulate>>
    /\ UNCHANGED stepper
    /\ UNCHANGED dcDevice
    /\ UNCHANGED lastStrike
    /\ UNCHANGED before

BackspaceEnd ==
    /\ AtOp("backend")
    /\ SetSup(backspace_end(Sup))
    /\ todo' = Tail(todo)
    /\ lastPulse' = "none"
    /\ UNCHANGED <<pc, constructed, compIdx, next_char, word_wrap, last_char,
                   word_buffer, acked, closeSent, errSeen, initVars, outq,
                   ctrlVars,
                   inputVars, flagVars>>
    /\ UNCHANGED <<placed, boundary, answered, faults, rotation, paper, keys>>
    /\ UNCHANGED raised
    /\ UNCHANGED <<enable, simulate>>
    /\ UNCHANGED stepper
    /\ UNCHANGED dcDevice
    /\ lastStrike' = -1
    /\ UNCHANGED before

\* main: KeyboardInterrupt raised in the main thread inside the try block,
\* while the thread waits in a recv() (where it spends its time)
KeyboardInterrupt ==
    /\ \/ pc = "loop" /\ outq["Input"] = <<>>
       \/ AtOp("recv") /\ outq[Head(todo).s] = <<>>
       \/ pc = "confirm" /\ compIdx > 1 /\ outq[ComponentOrder[compIdx]] = <<>>
    /\ pc' = "shutdown"
    /\ todo' = <<>>
    /\ lastPulse' = "none"
    /\ UNCHANGED <<constructed, compIdx, next_char, tasks, posVars, histVars,
                   inq, outq, ctrlVars, inputVars, flagVars>>
    /\ UNCHANGED <<placed, boundary, pending, answered, faults, rotation, paper, keys>>
    /\ events' = <<>>
    /\ UNCHANGED raised
    /\ UNCHANGED <<enable, simulate>>
    /\ UNCHANGED stepper
    /\ UNCHANGED dcDevice
    /\ UNCHANGED lastStrike
    /\ UNCHANGED before

\* shutdown: close_components, comp.close() and comp.send("CLOSE")
CloseComponents ==
    /\ pc = "shutdown"
    /\ pc' = "join"
    /\ compIdx' = 1
    /\ IF constructed
       THEN /\ exitFlag' = [c \in Threads |-> TRUE]
            /\ runFlag' = TRUE
            /\ inq' = close_components(inq)
       ELSE UNCHANGED <<exitFlag, runFlag, inq>>
    /\ closeSent' = [c \in Threads |->
                       closeSent[c] + Len(inq'[c]) - Len(inq[c])]
    /\ lastPulse' = "none"
    /\ UNCHANGED <<constructed, todo, next_char, tasks, posVars, sent, acked,
                   errSeen, initVars, outq, cstate, cur, currentStep,
                   currentTool, inputLeft, flagVars>>
    /\ UNCHANGED <<placed, boundary, pending, answered, faults, rotation, paper, keys>>
    /\ UNCHANGED events
    /\ UNCHANGED raised
    /\ UNCHANGED <<enable, simulate>>
    /\ UNCHANGED stepper
    /\ UNCHANGED dcDevice
    /\ UNCHANGED lastStrike
    /\ UNCHANGED before

\* join_threads: t.join() of one thread, in the order of the threads dict
JoinThread ==
    /\ pc = "join"
    /\ constructed
    /\ compIdx <= Len(ThreadOrder)
    /\ cstate[ThreadOrder[compIdx]] = "dead"
    /\ compIdx' = compIdx + 1
    /\ lastPulse' = "none"
    /\ UNCHANGED <<pc, constructed, todo, next_char, tasks, posVars, histVars,
                   inq, outq, ctrlVars, inputVars, flagVars>>
    /\ UNCHANGED <<placed, boundary, pending, answered, faults, rotation, paper, keys>>
    /\ UNCHANGED events
    /\ UNCHANGED raised
    /\ UNCHANGED <<enable, simulate>>
    /\ UNCHANGED stepper
    /\ UNCHANGED dcDevice
    /\ UNCHANGED lastStrike
    /\ UNCHANGED before

\* shutdown and main return
Exit ==
    /\ pc = "join"
    /\ ~constructed \/ compIdx > Len(ThreadOrder)
    /\ pc' = "done"
    /\ lastPulse' = "none"
    /\ UNCHANGED <<constructed, compIdx, todo, next_char, tasks, posVars,
                   histVars, inq, outq, ctrlVars, inputVars, flagVars>>
    /\ UNCHANGED <<placed, boundary, pending, answered, faults, rotation, paper, keys>>
    /\ UNCHANGED events
    /\ UNCHANGED raised
    /\ UNCHANGED <<enable, simulate>>
    /\ UNCHANGED stepper
    /\ UNCHANGED dcDevice
    /\ UNCHANGED lastStrike
    /\ UNCHANGED before

MainNext ==
    \/ ArgumentError \/ Initialise \/ ConfirmEmbosser \/ ConfirmThread
    \/ CubLoopEnter \/ CubLoopRecv \/ CubLoopNext
    \/ HeadNextChar \/ PrintChar \/ SendTask \/ PrintCol \/ BarrierRecv
    \/ Activate \/ Backspace \/ BackspaceEnd
    \/ CloseComponents \/ JoinThread \/ Exit


(***************************************************************************)
(* Hardware interface: StepperMotor.py                                     *)
(***************************************************************************)
\* move_steps whose __startup_motor clears the emergency flag
move_steps_clears_emergency(count, emergency) ==
    [pulsed |-> IF emergency THEN 0 ELSE count, emergencyFlag |-> FALSE]

\* StepperMotor.move_steps(count, dir): the steps it pulses and the class
\* emergency flag it leaves (__startup_motor clears only the stop flag)
move_steps(count, emergency) ==
    [pulsed |-> IF emergency THEN 0 ELSE count, emergencyFlag |-> emergency]

\* what a stepper movement of the given number of pulsed steps drives
Drive(pulsed) == IF pulsed > 0 THEN "step" ELSE "none"

\* emergency_stop() of a component: StepperMotor.e_stop() sets the class
\* flag unless the component is simulated
emergency_stop(c, emergency) == IF simulate[c] THEN emergency ELSE TRUE

\* StepperMotor.__startup_motor: the ENABLE pin after it, high unless the
\* emergency flag is set
startup_motor(pin, emergency) == IF emergency THEN pin ELSE TRUE

\* the ENABLE pin of the stepper of c after c has executed a command that
\* asked the stepper for the given number of steps
AfterMove(c, steps) ==
    IF steps > 0 /\ ~simulate[c]
    THEN startup_motor(enable[c], stepperEmergency)
    ELSE enable[c]

\* emergency_stop() of a component: StepperMotor.e_stop() calls
\* __disable_motor, which writes the ENABLE pin low
e_stop(c, pin) == IF simulate[c] THEN pin ELSE FALSE

\* the ENABLE pin of the stepper of c after a step of its thread: thread_in
\* of the Traverser and of the Selector calls emergency_stop() in its
\* finally clause
AfterThreadStep(c, steps, leave) ==
    IF leave THEN e_stop(c, AfterMove(c, steps)) ELSE AfterMove(c, steps)

(***************************************************************************)
(* Component threads: HeadTraverser.py, ToolSelector.py, Feeder.py         *)
(***************************************************************************)
\* __input: msg.split() padded with NULL to n fields
split_pad(msg, n) == msg \o [i \in 1..(n - Len(msg)) |-> "NULL"]
FieldCount(c) == IF c = "Traverser" THEN 4 ELSE 3

ErrorMsg(c) == c \o " ERROR"

\* a thread that swallows its faults
thread_out_silent(c, ok) == IF ok THEN <<ACK>> ELSE <<>>

\* what a controller thread puts in its pipe at the end of a step: the ACK
\* of __startup / __run, or the text of thread_in's except clause
thread_out(c, ok) == IF ok THEN <<ACK>> ELSE <<ErrorMsg(c)>>

\* HeadTraverser.__run for one command: ok is FALSE for CommunicationError,
\* steps is the movement requested from the stepper, step the new currentStep
traverser_run(cmd, step) ==
    LET key == cmd[1]
        index == cmd[2]
        direction == cmd[3]
        count == IF cmd[4] = "NULL" THEN 1
                 ELSE IF IsInt(cmd[4]) THEN int(cmd[4]) ELSE -1
        unit == IF index = "CHAR" THEN STEPS_BETWEEN_CHAR
                ELSE STEPS_BETWEEN_COLUMN
    IN  IF key = "CLOSE"
        THEN [ok |-> TRUE, close |-> TRUE, steps |-> 0, step |-> step]
        ELSE IF key = "HOME"
        THEN [ok |-> TRUE, close |-> FALSE, steps |-> step, step |-> 0]
        ELSE IF key = "MOVE" /\ count # -1 /\ index \in {"CHAR", "COL"}
                /\ direction \in {"POS", "NEG"}
        THEN [ok |-> TRUE, close |-> FALSE, steps |-> unit * count,
              step |-> IF direction = "POS" THEN step + unit * count
                       ELSE step - unit * count]
        ELSE [ok |-> FALSE, close |-> FALSE, steps |-> 0, step |-> step]

\* ToolSelector.__tool_select for a tool other than the current one and
\* other than 0: the steps requested from the stepper
tool_select_steps(tool, current) ==
    LET movement == tool - current
        wrapped == IF movement > 4 THEN movement - 8
                   ELSE IF movement < -3 THEN movement + 8 ELSE movement
        faces == IF wrapped > 0 THEN wrapped ELSE -wrapped
    IN  faces * STEPS_PER_TOOL

\* ToolSelector.__tool_select: the direction of that rotation
tool_select_dir(tool, current) ==
    LET movement == tool - current
        wrapped == IF movement > 4 THEN movement - 8
                   ELSE IF movement < -3 THEN movement + 8 ELSE movement
    IN  IF wrapped > 0 THEN "POS" ELSE "NEG"

\* ToolSelector.__tool_home: the steps first requested from the stepper
tool_home_steps(current) ==
    IF current > 4 THEN (8 - current) * STEPS_PER_TOOL * 2
    ELSE current * STEPS_PER_TOOL * 2

\* ToolSelector.__tool_home: the direction of that rotation
tool_home_dir(current) == IF current > 4 THEN "POS" ELSE "NEG"

\* ToolSelector.__run for one command; home is what the home sensor does
\* during __tool_home: "athome" (reads true at once), "reached" or "fail"
selector_run(cmd, tool, home) ==
    LET key == cmd[1]
        target == translate_tool(cmd[2])
        homing == [ok |-> home # "fail", close |-> FALSE,
                   steps |-> IF home = "athome" THEN 0
                             ELSE tool_home_steps(tool),
                   dir |-> IF home = "athome" THEN "NONE"
                           ELSE tool_home_dir(tool),
                   tool |-> IF home = "reached" THEN 0 ELSE tool]
    IN  IF key = "CLOSE"
        THEN [ok |-> TRUE, close |-> TRUE, steps |-> 0, dir |-> "NONE",
              tool |-> tool]
        ELSE IF key = "HOME"
        THEN homing
        ELSE IF key = "MOVE" /\ target \in 0..7
        THEN IF target = tool
             THEN [ok |-> TRUE, close |-> FALSE, steps |-> 0, dir |-> "NONE",
                   tool |-> tool]
             ELSE IF target = 0
             THEN [homing EXCEPT !.tool = IF home = "fail" THEN tool ELSE 0]
             ELSE [ok |-> TRUE, close |-> FALSE,
                   steps |-> tool_select_steps(target, tool),
                   dir |-> tool_select_dir(target, tool), tool |-> target]
        ELSE [ok |-> FALSE, close |-> FALSE, steps |-> 0, dir |-> "NONE",
              tool |-> tool]

\* the home sensor readings possible during __tool_home
HomeOutcomes(tool) ==
    IF tool = 0 THEN {"athome", "reached", "fail"} ELSE {"reached", "fail"}

\* Feeder.run for one command: steps is what feed_lines asks of the line
\* stepper when the Feeder is not simulated
feeder_run(cmd) ==
    LET key == cmd[1]
        index == cmd[2]
        direction == cmd[3]
    IN  IF key = "CLOSE"
        THEN [ok |-> TRUE, close |-> TRUE, steps |-> 0]
        ELSE IF key = "FEED"
        THEN IF IsInt(index) /\ direction \in {"POS", "NEG"}
             THEN [ok |-> TRUE, close |-> FALSE,
                   steps |-> LINE_STEPS * int(index)]
             ELSE [ok |-> FALSE, close |-> FALSE, steps |-> 0]
        ELSE IF key = "PAPER"
        THEN [ok |-> index \in {"FEED", "EJECT"}, close |-> FALSE,
              steps |-> 0]
        ELSE [ok |-> FALSE, close |-> FALSE, steps |-> 0]

\* the state of a controller thread after a step that leaves the exit flag
\* ex: "while not self.exit" either blocks in __input or leaves thread_in
AfterStep(ex) == IF ex THEN "dead" ELSE "recv"

\* HeadTraverser.__startup (home, movement test, sensor check) and the entry
\* of __run; ok is FALSE when InitialisationError is raised
TraverserStartup ==
    /\ cstate["Traverser"] = "startup"
    /\ \E ok \in BOOLEAN :
        LET m == move_steps(currentStep, stepperEmergency)
            leave == ~ok \/ exitFlag["Traverser"]
        IN
        /\ lastPulse' = Drive(m.pulsed)
        /\ currentStep' = 0
        /\ outq' = [outq EXCEPT !["Traverser"] = @ \o thread_out("Traverser", ok)]
        /\ faults' = [faults EXCEPT !["Traverser"] = IF ok THEN @ ELSE @ + 1]
        /\ cstate' = [cstate EXCEPT !["Traverser"] = AfterStep(leave)]
        /\ exitFlag' = [exitFlag EXCEPT !["Traverser"] = leave]
        /\ stepperEmergency' = IF leave
                               THEN emergency_stop("Traverser", m.emergencyFlag)
                               ELSE m.emergencyFlag
        /\ enable' = [enable EXCEPT !["Traverser"] =
                        AfterThreadStep("Traverser", currentStep, leave)]
    /\ UNCHANGED simulate
    /\ UNCHANGED <<supVars, inq, cur, currentTool, inputVars, dcEmergency>>
    /\ UNCHANGED <<placed, boundary, pending, answered, rotation, paper, keys>>
    /\ UNCHANGED events
    /\ UNCHANGED raised
    /\ UNCHANGED stepper
    /\ UNCHANGED dcDevice
    /\ UNCHANGED lastStrike
    /\ UNCHANGED before

\* ToolSelector.__startup (home, rotation test, sensor check) and the entry
\* of __run
SelectorStartup ==
    /\ cstate["Selector"] = "startup"
    /\ \E ok \in BOOLEAN :
        LET m == move_steps(STEPS_PER_TOOL * 8, stepperEmergency)
            leave == ~ok \/ exitFlag["Selector"]
        IN
        /\ lastPulse' = Drive(m.pulsed)
        /\ currentTool' = IF ok THEN 0 ELSE currentTool
        /\ outq' = [outq EXCEPT !["Selector"] = @ \o thread_out("Selector", ok)]
        /\ faults' = [faults EXCEPT !["Selector"] = IF ok THEN @ ELSE @ + 1]
        /\ cstate' = [cstate EXCEPT !["Selector"] = AfterStep(leave)]
        /\ exitFlag' = [exitFlag EXCEPT !["Selector"] = leave]
        /\ stepperEmergency' = IF leave
                               THEN emergency_stop("Selector", m.emergencyFlag)
                               ELSE m.emergencyFlag
        /\ enable' = [enable EXCEPT !["Selector"] =
                        AfterThreadStep("Selector", STEPS_PER_TOOL * 8, leave)]
    /\ UNCHANGED simulate
    /\ UNCHANGED <<supVars, inq, cur, currentStep, inputVars, dcEmergency>>
    /\ UNCHANGED <<placed, boundary, pending, answered, rotation, paper, keys>>
    /\ UNCHANGED events
    /\ UNCHANGED raised
    /\ UNCHANGED stepper
    /\ UNCHANGED dcDevice
    /\ UNCHANGED lastStrike
    /\ UNCHANGED before

\* Feeder.startup and the entry of run
FeederStartup ==
    /\ cstate["Feeder"] = "startup"
    /\ outq' = [outq EXCEPT !["Feeder"] = Append(@, ACK)]
    /\ cstate' = [cstate EXCEPT !["Feeder"] = AfterStep(exitFlag["Feeder"])]
    /\ lastPulse' = "none"
    /\ UNCHANGED <<supVars, inq, cur, exitFlag, currentStep, currentTool,
                   inputVars, flagVars>>
    /\ UNCHANGED <<placed, boundary, pending, answered, faults, rotation, paper, keys>>
    /\ UNCHANGED events
    /\ UNCHANGED raised
    /\ UNCHANGED <<enable, simulate>>
    /\ UNCHANGED stepper
    /\ UNCHANGED dcDevice
    /\ UNCHANGED lastStrike
    /\ UNCHANGED before

\* __input of a controller: receive and parse the next command
ControllerInput(c) ==
    /\ cstate[c] = "recv"
    /\ inq[c] # <<>>
    /\ cur' = [cur EXCEPT ![c] = split_pad(pipe_recv(inq[c]).msg, FieldCount(c))]
    /\ inq' = [inq EXCEPT ![c] = pipe_recv(inq[c]).rest]
    /\ cstate' = [cstate EXCEPT ![c] = "busy"]
    /\ lastPulse' = "none"
    /\ UNCHANGED <<supVars, outq, exitFlag, currentStep, currentTool,
                   inputVars, flagVars>>
    /\ UNCHANGED <<placed, boundary, pending, answered, faults, rotation, paper, keys>>
    /\ UNCHANGED events
    /\ UNCHANGED raised
    /\ UNCHANGED <<enable, simulate>>
    /\ UNCHANGED stepper
    /\ UNCHANGED dcDevice
    /\ UNCHANGED lastStrike
    /\ UNCHANGED before

\* HeadTraverser.__run: execute the command, answer, test the exit flag
TraverserRun ==
    /\ cstate["Traverser"] = "busy"
    /\ LET r == traverser_run(cur["Traverser"], currentStep)
           m == move_steps(r.steps, stepperEmergency)
           leave == ~r.ok \/ r.close \/ exitFlag["Traverser"]
       IN
       /\ lastPulse' = Drive(m.pulsed)
       /\ currentStep' = r.step
       /\ outq' = [outq EXCEPT !["Traverser"] =
                     @ \o thread_out("Traverser", r.ok)]
       /\ faults' = [faults EXCEPT !["Traverser"] = IF r.ok THEN @ ELSE @ + 1]
       /\ cstate' = [cstate EXCEPT !["Traverser"] = AfterStep(leave)]
       /\ exitFlag' = [exitFlag EXCEPT !["Traverser"] = leave]
       /\ stepperEmergency' = IF leave
                              THEN emergency_stop("Traverser", m.emergencyFlag)
                              ELSE m.emergencyFlag
       /\ enable' = [enable EXCEPT !["Traverser"] =
                       AfterThreadStep("Traverser", r.steps, leave)]
    /\ UNCHANGED simulate
    /\ cur' = [cur EXCEPT !["Traverser"] = <<>>]
    /\ answered' = [answered EXCEPT !["Traverser"] = Append(@, cur["Traverser"])]
    /\ UNCHANGED <<supVars, inq, currentTool, inputVars, dcEmergency>>
    /\ UNCHANGED <<placed, boundary, pending, rotation, paper, keys>>
    /\ UNCHANGED events
    /\ UNCHANGED raised
    /\ UNCHANGED stepper
    /\ UNCHANGED dcDevice
    /\ UNCHANGED lastStrike
    /\ UNCHANGED before

\* ToolSelector.__run: execute the command, answer, test the exit flag
SelectorRun ==
    /\ cstate["Selector"] = "busy"
    /\ \E home \in HomeOutcomes(currentTool) :
        LET r == selector_run(cur["Selector"], currentTool, home)
            m == move_steps(r.steps, stepperEmergency)
            leave == ~r.ok \/ r.close \/ exitFlag["Selector"]
        IN
        /\ lastPulse' = Drive(m.pulsed)
        /\ currentTool' = r.tool
        /\ outq' = [outq EXCEPT !["Selector"] =
                      @ \o thread_out("Selector", r.ok)]
        /\ faults' = [faults EXCEPT !["Selector"] = IF r.ok THEN @ ELSE @ + 1]
        /\ rotation' = IF cur["Selector"][1] = "MOVE"
                           /\ translate_tool(cur["Selector"][2]) \in 0..7
                        THEN [from |-> currentTool,
                              to |-> translate_tool(cur["Selector"][2]),
                              steps |-> r.steps, dir |-> r.dir]
                        ELSE rotation
        /\ cstate' = [cstate EXCEPT !["Selector"] = AfterStep(leave)]
        /\ exitFlag' = [exitFlag EXCEPT !["Selector"] = leave]
        /\ stepperEmergency' = IF leave
                               THEN emergency_stop("Selector", m.emergencyFlag)
                               ELSE m.emergencyFlag
        /\ enable' = [enable EXCEPT !["Selector"] =
                        AfterThreadStep("Selector", r.steps, leave)]
    /\ UNCHANGED simulate
    /\ cur' = [cur EXCEPT !["Selector"] = <<>>]
    /\ answered' = [answered EXCEPT !["Selector"] = Append(@, cur["Selector"])]
    /\ UNCHANGED <<supVars, inq, currentStep, inputVars, dcEmergency>>
    /\ UNCHANGED <<placed, boundary, pending, paper, keys>>
    /\ UNCHANGED events
    /\ UNCHANGED raised
    /\ UNCHANGED stepper
    /\ UNCHANGED dcDevice
    /\ UNCHANGED lastStrike
    /\ UNCHANGED before

\* Feeder.run: execute the command, answer, test the exit flag
FeederRun ==
    /\ cstate["Feeder"] = "busy"
    /\ LET r == feeder_run(cur["Feeder"])
           leave == ~r.ok \/ r.close \/ exitFlag["Feeder"]
       IN
       /\ outq' = [outq EXCEPT !["Feeder"] = @ \o thread_out("Feeder", r.ok)]
       /\ faults' = [faults EXCEPT !["Feeder"] = IF r.ok THEN @ ELSE @ + 1]
       /\ cstate' = [cstate EXCEPT !["Feeder"] = AfterStep(leave)]
       /\ exitFlag' = [exitFlag EXCEPT !["Feeder"] = leave]
       /\ stepperEmergency' = IF r.ok THEN stepperEmergency
                              ELSE emergency_stop("Feeder", stepperEmergency)
       /\ dcEmergency' = IF r.ok THEN dcEmergency
                         ELSE emergency_stop("Feeder", dcEmergency)
       /\ enable' = [enable EXCEPT !["Feeder"] =
                       IF r.ok THEN AfterMove("Feeder", r.steps)
                       ELSE e_stop("Feeder", @)]
       /\ lastPulse' = IF simulate["Feeder"] THEN "none"
                       ELSE Drive(move_steps(r.steps, stepperEmergency).pulsed)
    /\ UNCHANGED simulate
    /\ cur' = [cur EXCEPT !["Feeder"] = <<>>]
    /\ answered' = [answered EXCEPT !["Feeder"] = Append(@, cur["Feeder"])]
    /\ UNCHANGED <<supVars, inq, currentStep, currentTool, inputVars>>
    /\ UNCHANGED <<placed, boundary, pending, rotation, paper, keys>>
    /\ UNCHANGED events
    /\ UNCHANGED raised
    /\ UNCHANGED stepper
    /\ UNCHANGED dcDevice
    /\ UNCHANGED lastStrike
    /\ UNCHANGED before

(***************************************************************************)
(* Input thread: Input.py                                                  *)
(***************************************************************************)
\* a thread_in whose finally clause notifies nobody
thread_in_finally_quiet(q) == q

\* Input.thread_in, finally clause: self.__output_cub("END OF INPUT")
thread_in_finally(q) == Append(q, END_OF_INPUT)

\* Input.__startup; ok is FALSE when InitialisationError is raised, which
\* thread_in answers with the error text and then END OF INPUT
InputStartup ==
    /\ cstate["Input"] = "startup"
    /\ \E ok \in BOOLEAN :
        IF ok
        THEN /\ outq' = [outq EXCEPT !["Input"] = Append(@, ACK)]
             /\ cstate' = [cstate EXCEPT !["Input"] = "waitrun"]
             /\ UNCHANGED <<exitFlag, runFlag>>
        ELSE /\ outq' = [outq EXCEPT !["Input"] =
                           thread_in_finally(Append(@, ErrorMsg("Input")))]
             /\ cstate' = [cstate EXCEPT !["Input"] = "dead"]
             /\ exitFlag' = [exitFlag EXCEPT !["Input"] = TRUE]
             /\ runFlag' = TRUE
    /\ lastPulse' = "none"
    /\ UNCHANGED <<supVars, inq, cur, currentStep, currentTool, inputLeft,
                   flagVars>>
    /\ UNCHANGED <<placed, boundary, pending, answered, faults, rotation, paper, keys>>
    /\ UNCHANGED events
    /\ UNCHANGED raised
    /\ UNCHANGED <<enable, simulate>>
    /\ UNCHANGED stepper
    /\ UNCHANGED dcDevice
    /\ UNCHANGED lastStrike
    /\ UNCHANGED before

\* Input.__run: runFlag.wait() returns, then the loop test
InputStart ==
    /\ cstate["Input"] = "waitrun"
    /\ runFlag
    /\ IF exitFlag["Input"]
       THEN /\ outq' = [outq EXCEPT !["Input"] = thread_in_finally(@)]
            /\ cstate' = [cstate EXCEPT !["Input"] = "dead"]
       ELSE /\ outq' = outq
            /\ cstate' = [cstate EXCEPT !["Input"] = "reading"]
    /\ lastPulse' = "none"
    /\ UNCHANGED <<supVars, inq, cur, exitFlag, currentStep, currentTool,
                   inputVars, flagVars>>
    /\ UNCHANGED <<placed, boundary, pending, answered, faults, rotation, paper, keys>>
    /\ UNCHANGED events
    /\ UNCHANGED raised
    /\ UNCHANGED <<enable, simulate>>
    /\ UNCHANGED stepper
    /\ UNCHANGED dcDevice
    /\ UNCHANGED lastStrike
    /\ UNCHANGED before

\* Input.__run loop body: __take_input returns a character of the device,
\* it is sent to the supervisor, then the loop test.  The device delivers a
\* character once the supervisor has taken the previous one.
InputChar ==
    /\ cstate["Input"] = "reading"
    /\ outq["Input"] = <<>>
    /\ inputLeft > 0
    /\ \E c \in Cells \cup {BACKSPACE} :
        outq' = [outq EXCEPT !["Input"] =
                   IF exitFlag["Input"] THEN thread_in_finally(Append(@, c))
                   ELSE Append(@, c)]
    /\ inputLeft' = inputLeft - 1
    /\ cstate' = [cstate EXCEPT !["Input"] =
                    IF exitFlag["Input"] THEN "dead" ELSE "reading"]
    /\ lastPulse' = "none"
    /\ UNCHANGED <<supVars, inq, cur, exitFlag, currentStep, currentTool,
                   runFlag, flagVars>>
    /\ UNCHANGED <<placed, boundary, pending, answered, faults, rotation, paper, keys>>
    /\ UNCHANGED events
    /\ UNCHANGED raised
    /\ UNCHANGED <<enable, simulate>>
    /\ UNCHANGED stepper
    /\ UNCHANGED dcDevice
    /\ UNCHANGED lastStrike
    /\ UNCHANGED before

\* Input.__run loop body: __take_input meets the end of the input
InputEnd ==
    /\ cstate["Input"] = "reading"
    /\ outq["Input"] = <<>>
    /\ outq' = [outq EXCEPT !["Input"] = thread_in_finally(@)]
    /\ exitFlag' = [exitFlag EXCEPT !["Input"] = TRUE]
    /\ cstate' = [cstate EXCEPT !["Input"] = "dead"]
    /\ lastPulse' = "none"
    /\ UNCHANGED <<supVars, inq, cur, currentStep, currentTool, inputVars,
                   flagVars>>
    /\ UNCHANGED <<placed, boundary, pending, answered, faults, rotation, paper, keys>>
    /\ UNCHANGED events
    /\ UNCHANGED raised
    /\ UNCHANGED <<enable, simulate>>
    /\ UNCHANGED stepper
    /\ UNCHANGED dcDevice
    /\ UNCHANGED lastStrike
    /\ UNCHANGED before

ControllerNext ==
    \/ TraverserStartup \/ SelectorStartup \/ FeederStartup
    \/ \E c \in Actuators : ControllerInput(c)
    \/ TraverserRun \/ SelectorRun \/ FeederRun

\* Translator.b_keyboard_to_br for the keys of BrailleKeyboard.test_input
b_keyboard_to_br(key) ==
    CASE key = "<uppercase>" -> "000001"
      [] key = "t" -> "011110"
      [] key = "h" -> "110010"
      [] key = "i" -> "010100"
      [] key = "s" -> "011100"
      [] key = "a" -> "100000"
      [] key = " " -> "000000"

\* Input.__run loop body in BKEYBOARD mode: __take_input receives the next
\* key of the Braille keyboard process and translates it, the cell is sent
\* to the supervisor, then the loop test
InputBKeyboard ==
    /\ cstate["Input"] = "reading"
    /\ outq["Input"] = <<>>
    /\ keys # <<>>
    /\ outq' = [outq EXCEPT !["Input"] =
                  IF exitFlag["Input"]
                  THEN thread_in_finally(Append(@, b_keyboard_to_br(Head(keys))))
                  ELSE Append(@, b_keyboard_to_br(Head(keys)))]
    /\ keys' = Tail(keys)
    /\ cstate' = [cstate EXCEPT !["Input"] =
                    IF exitFlag["Input"] THEN "dead" ELSE "reading"]
    /\ lastPulse' = "none"
    /\ UNCHANGED <<supVars, inq, cur, exitFlag, currentStep, currentTool,
                   inputVars, flagVars>>
    /\ UNCHANGED <<placed, boundary, pending, answered, faults, rotation, paper>>
    /\ UNCHANGED events
    /\ UNCHANGED raised
    /\ UNCHANGED <<enable, simulate>>
    /\ UNCHANGED stepper
    /\ UNCHANGED dcDevice
    /\ UNCHANGED lastStrike
    /\ UNCHANGED before

\* Input.__run loop body: the character __take_input reads in KEYBOARD mode
\* is an exit key (ESC, CTRL-C, CTRL-Z) and it raises CUBClose; thread_in
\* sends the text of its except clause and then, in the finally clause,
\* END OF INPUT
InputClose ==
    /\ cstate["Input"] = "reading"
    /\ outq["Input"] = <<>>
    /\ inputLeft > 0
    /\ inputLeft' = inputLeft - 1
    /\ outq' = [outq EXCEPT !["Input"] = thread_in_finally(Append(@, CloseMsg))]
    /\ cstate' = [cstate EXCEPT !["Input"] = "dead"]
    /\ lastPulse' = "none"
    /\ UNCHANGED <<supVars, inq, cur, exitFlag, currentStep, currentTool,
                   runFlag, flagVars>>
    /\ UNCHANGED <<placed, boundary, pending, answered, faults, rotation, paper, keys>>
    /\ UNCHANGED events
    /\ UNCHANGED raised
    /\ UNCHANGED <<enable, simulate>>
    /\ UNCHANGED stepper
    /\ UNCHANGED dcDevice
    /\ UNCHANGED lastStrike
    /\ UNCHANGED before

InputNext == InputStartup \/ InputStart \/ InputChar \/ InputEnd \/ InputClose

Next == MainNext \/ KeyboardInterrupt \/ ControllerNext \/ InputNext

Spec == Init /\ [][Next]_vars

\* the runs in no-wrap mode
SpecNoWrap == InitNoWrap /\ [][Next]_vars

\* a session whose Feeder is constructed without the simulate flag and
\* drives its line stepper
InitFeederHardware ==
    Session({TRUE}, HardwareInput, Sheet, <<>>,
            [SIMULATE EXCEPT !["Feeder"] = FALSE])

SpecFeederHardware == InitFeederHardware /\ [][Next]_vars


\* steps of the program itself: every thread but not the input device and
\* not the operator's interrupt
ProgramNext == MainNext \/ ControllerNext \/ InputStartup \/ InputStart

AllComponents == {"Embosser", "Traverser", "Selector", "Feeder", "Input"}
Stopping == pc \in {"shutdown", "join", "done"}

(***************************************************************************)
(* The Selector on its own: one print_col for every column and every tool  *)
(* the earlier characters may have left selected.                          *)
(***************************************************************************)
\* the columns print_char can pass to print_col
Columns == {"000", "100", "010", "110", "001", "101", "011", "111"}

\* cub_loop is printing, every thread waits for a command, any tool is
\* selected and print_col is the next call; the history counters start here
InitSelector ==
    /\ pc = "exec"
    /\ constructed = TRUE
    /\ compIdx = Len(ComponentOrder)
    /\ todo \in {<<PColOp(column)>> : column \in Columns}
    /\ next_char = "100000"
    /\ word_wrap = TRUE
    /\ tasks = [c \in Threads |-> 0]
    /\ current_line = 1
    /\ current_char = 1
    /\ last_char = ""
    /\ word_buffer = <<>>
    /\ inq = [c \in Threads |-> <<>>]
    /\ outq = [c \in Threads |-> <<>>]
    /\ cstate = [c \in Threads |-> IF c = "Input" THEN "reading" ELSE "recv"]
    /\ cur = [c \in Actuators |-> <<>>]
    /\ exitFlag = [c \in Threads |-> FALSE]
    /\ runFlag = TRUE
    /\ inputLeft = 0
    /\ currentStep = 0
    /\ currentTool \in 0..7
    /\ stepperEmergency = FALSE
    /\ dcEmergency = FALSE
    /\ lastPulse = "none"
    /\ sent = [c \in Threads |-> 0]
    /\ acked = [c \in Threads |-> 0]
    /\ closeSent = [c \in Threads |-> 0]
    /\ errSeen = FALSE
    /\ confirmed = AllComponents
    /\ initFailed = FALSE
    /\ placed = FALSE
    /\ boundary = FALSE
    /\ pending = [c \in Threads |-> <<>>]
    /\ answered = [c \in Actuators |-> <<>>]
    /\ faults = [c \in Actuators |-> 0]
    /\ rotation = NoRotation
    /\ events = <<>>
    /\ raised = NoError
    /\ enable = [c \in Actuators |-> ~SIMULATE[c]]
    /\ stepper = [m \in Steppers |-> IdleStepper]
    /\ dcDevice = [d \in DCDevices |-> IdleDevice]
    /\ lastStrike = -1
    /\ before = NoCell
    /\ simulate = SIMULATE
    /\ paper = Sheet
    /\ keys = <<>>

NextSelector ==
    \/ PrintCol \/ ControllerInput("Selector") \/ SelectorRun
    \/ BarrierRecv \/ Activate

SpecSelector == InitSelector /\ [][NextSelector]_vars

(***************************************************************************)
(* The run of BrailleKeyboard.py: BKEYBOARD mode with word wrap, the keys  *)
(* of its test input up to the first space.                                *)
(***************************************************************************)
RoundTripKeys == <<"<uppercase>", "t", "h", "i", "s", " ">>

InitRoundTrip ==
    Session({TRUE}, 0, [size |-> RoundTripCells, length |-> PaperLines],
            RoundTripKeys, SIMULATE)

NextRoundTrip ==
    \/ ArgumentError \/ Initialise \/ ConfirmEmbosser \/ ConfirmThread
    \/ CubLoopEnter \/ CubLoopRecv \/ CubLoopNext
    \/ HeadNextChar \/ PrintChar \/ SendTask \/ PrintCol \/ BarrierRecv
    \/ Activate \/ CloseComponents \/ JoinThread \/ Exit
    \/ KeyboardInterrupt \/ ControllerNext
    \/ InputStartup \/ InputStart \/ InputBKeyboard \/ InputEnd

SpecRoundTrip == InitRoundTrip /\ [][NextRoundTrip]_vars

\* a message of the Input thread that is a cell: six characters 0 or 1
IsCell(char) ==
    BitsOf(LeftHalf(char)) # <<>> /\ BitsOf(RightHalf(char)) # <<>>

\* the number of keys whose cell the supervisor has received
Taken ==
    Len(RoundTripKeys) - Len(keys)
        - Len(SelectSeq(outq["Input"], LAMBDA m : IsCell(m)))

(***************************************************************************)
(* Properties                                                              *)
(***************************************************************************)

\* C1: when print_col is about to activate the Embosser, every command
\* dispatched to the Selector and to the Traverser has been executed and
\* acknowledged: their counters are zero, their pipes are empty and neither
\* controller is executing a command.
C1_SettledBeforeStrike ==
    AtOp("activate") =>
        \A c \in {"Selector", "Traverser"} :
            /\ tasks[c] = 0
            /\ acked[c] = sent[c]
            /\ inq[c] = <<>>
            /\ outq[c] = <<>>
            /\ cstate[c] = "recv"

\* the second strike of a cell: the Traverser has been sent its column move
C1_Witness ==
    /\ AtOp("activate")
    /\ sent["Traverser"] > 0
    /\ sent["Selector"] > 1

\* C2: every counter tasks[c] is non-negative and equals the number of
\* commands sent to c by send_task minus the number of ACKs task_barrier
\* received from c, also after a barrier aborted by a failure message.
C2_OutstandingCount ==
    \A c \in Threads :
        /\ tasks[c] >= 0
        /\ tasks[c] = sent[c] - acked[c]

\* a barrier was aborted with acknowledged and unacknowledged commands
C2_Witness ==
    /\ errSeen
    /\ \E c \in Threads : tasks[c] > 0
    /\ \E c \in Threads : acked[c] > 0

\* C3: 0 <= current_char <= paper size and 1 <= current_line <= paper
\* length in every reachable state, in both wrap modes.
C3_PositionInvariant ==
    /\ 0 <= current_char
    /\ current_char <= get_paper_size
    /\ 1 <= current_line
    /\ current_line <= get_paper_length

\* a backspace has returned to the end of the previous line after a wrap
C3_Witness ==
    /\ AtOp("backend")
    /\ sent["Feeder"] > 1
    /\ current_line = 1
    /\ current_char = get_paper_size - 1

\* C4: after task_barrier raised OperationError the supervisor keeps
\* printing and never blocks forever in a later barrier: it is never
\* waiting for a message of a component whose thread has ended and whose
\* pipe is empty.
C4_NeverBlockedInBarrier ==
    ~ ( /\ errSeen
        /\ AtOp("recv")
        /\ cstate[Head(todo).s] = "dead"
        /\ outq[Head(todo).s] = <<>> )

\* C5: every command dispatched by send_task is consumed by its controller
\* and answered: a controller whose thread has ended has left no command of
\* send_task in its pipe.
C5_EveryCommandConsumed ==
    \A c \in Actuators :
        cstate[c] = "dead" =>
            \A i \in 1..Len(inq[c]) : inq[c][i] = <<"CLOSE">>

\* C6: once a controller has set the emergency-stop latch, no later step
\* pulses a stepper or the embosser coil.
C6_LatchStopsEveryOutput ==
    [][(stepperEmergency \/ dcEmergency) => lastPulse' = "none"]_vars

\* C7: the emergency-stop latch is one way: once set it stays set.
C7_LatchOneWay ==
    [][/\ stepperEmergency => stepperEmergency'
       /\ dcEmergency => dcEmergency']_vars

\* the latch is set and a controller is about to start its motor
C7_Witness ==
    /\ stepperEmergency
    /\ cstate["Traverser"] = "busy"
    /\ cur["Traverser"][1] = "MOVE"

\* C8: no command is dispatched and cub_loop is not entered unless all five
\* components reported ACK at startup; after a startup message other than
\* ACK the run goes to shutdown and never dispatches a command.
C8_NoOperationBeforeAck ==
    /\ (pc \in {"enter", "loop", "exec"} \/ \E c \in Threads : sent[c] > 0)
          => confirmed = AllComponents
    /\ initFailed => Stopping /\ \A c \in Threads : sent[c] = 0

\* a command has been dispatched after five acknowledged startups
C8_Witness ==
    /\ confirmed = AllComponents
    /\ pc = "exec"
    /\ sent["Selector"] > 0

\* C9: on every exit path of main shutdown runs and every started actuator
\* controller is sent exactly one CLOSE.
C9_OneCloseEach ==
    \A c \in Actuators :
        /\ closeSent[c] <= 1
        /\ (pc \in {"join", "done"} /\ cstate[c] # "new") => closeSent[c] = 1

\* main has returned and each of the three actuator controllers got its CLOSE
C9_Witness ==
    /\ pc = "done"
    /\ constructed
    /\ \A c \in Actuators : closeSent[c] = 1

\* C10: shutdown always completes whatever the component threads do: once
\* shutdown has begun the program can always take a step of its own until
\* main returns, without waiting for the input device.
C10_ShutdownCompletes ==
    pc \in {"shutdown", "join"} => ENABLED ProgramNext

\* C11: in no-wrap mode no word is split across a line boundary: when the
\* buffered word does not fit in the rest of the line the paper is advanced
\* before its first cell, and the paper is not advanced between its first
\* and its last cell.
C11_WordNotSplit ==
    [][(AtOp("hnc") /\ todo' # todo /\ ~word_wrap) =>
          IF Head(todo).n = Len(word_buffer)
          THEN (current_char + Len(word_buffer) > get_paper_size
                   => sent'["Feeder"] > sent["Feeder"])
          ELSE sent'["Feeder"] = sent["Feeder"]]_vars

\* C12: a space that is the first character to be placed on a line, and
\* that does not follow another space, dispatches no command, in both wrap
\* modes and on every line.
C12_LeadingSpaceSuppressed ==
    [][(AtOp("pchar") /\ todo' # todo /\ Head(todo).s = SPACE
           /\ ~placed /\ last_char # SPACE)
          => sent' = sent]_vars

\* C13: a BACKSPACE received at line 1, column 0 dispatches no command and
\* leaves current_line, current_char, last_char and the task counters as
\* they were, until the next character is received.
C13_BackspaceBoundary ==
    [][(boundary \/ boundary') =>
          UNCHANGED <<current_line, current_char, last_char, tasks, sent>>]_vars

\* C14: for every current tool and every target tool in 0..7, target 0
\* included, the Selector asks its stepper for min(forward faces, backward
\* faces) * STEPS_PER_TOOL steps in the direction of the shorter way, the
\* positive direction when both ways are 4 faces.
C14_ShortestRotation ==
    LET fwd == (rotation.to - rotation.from + 8) % 8
        bwd == (rotation.from - rotation.to + 8) % 8
        faces == IF fwd <= bwd THEN fwd ELSE bwd
    IN  /\ rotation.steps = faces * STEPS_PER_TOOL
        /\ (faces > 0 /\ fwd <= bwd) => rotation.dir = "POS"
        /\ bwd < fwd => rotation.dir = "NEG"

\* C15: a task_barrier call receives from each target exactly as many
\* messages as the target's counter held when the call began: the number
\* of messages it still waits for from a target is that target's counter,
\* and when it returns to print_col every target's counter is zero.
C15_BarrierSnapshot ==
    /\ \A i \in 1..Len(todo) :
          todo[i].op = "recv" =>
              todo[i].n > 0 /\ todo[i].n = tasks[todo[i].s]
    /\ AtOp("activate") =>
          \A i \in 1..Len(BarrierTargets) : tasks[BarrierTargets[i]] = 0

\* a barrier has received the Selector's acknowledgement and still waits
\* for two or more of the Traverser
C15_Witness ==
    /\ AtOp("recv")
    /\ Head(todo).s = "Traverser"
    /\ Head(todo).n >= 2
    /\ acked["Selector"] >= 1

\* the commands of a pipe other than CLOSE
NonClose(q) == SelectSeq(q, LAMBDA m : m[1] # "CLOSE")
\* the commands of a pipe as __input of c parses them
Parsed(c, q) == [i \in 1..Len(q) |-> split_pad(q[i], FieldCount(c))]

\* C16: the commands dispatched to a component are executed in the order
\* of dispatch and answered in that order: the dispatched commands whose
\* answer the supervisor has not received are, in order, those already
\* answered, the one being executed and those waiting in the pipe.
C16_FifoOrder ==
    \A c \in Actuators :
        Parsed(c, pending[c]) =
            NonClose(answered[c])
            \o NonClose(IF cstate[c] = "busy" THEN <<cur[c]>> ELSE <<>>)
            \o Parsed(c, NonClose(inq[c]))

\* the Traverser executes the first of two different commands while the
\* second waits
C16_Witness ==
    /\ cstate["Traverser"] = "busy"
    /\ Len(inq["Traverser"]) >= 1
    /\ Len(pending["Traverser"]) >= 2
    /\ pending["Traverser"][1] # pending["Traverser"][2]
    /\ acked["Traverser"] >= 1

\* the messages a step appends to the pipe of c
Appended(c) ==
    IF Len(outq'[c]) > Len(outq[c])
    THEN SubSeq(outq'[c], Len(outq[c]) + 1, Len(outq'[c]))
    ELSE <<>>

\* C17: a fault raised inside a controller thread reaches the supervisor
\* as exactly one message other than ACK on that controller's pipe, and as
\* nothing else: the step that raises it leaves the supervisor where it is,
\* and a message other than ACK is only ever the report of a fault.
C17_FaultBecomesOneMessage ==
    [][\A c \in Actuators :
          /\ faults'[c] # faults[c] =>
                /\ Len(Appended(c)) = 1
                /\ Appended(c)[1] # ACK
                /\ UNCHANGED <<pc, todo>>
          /\ (\E i \in 1..Len(Appended(c)) : Appended(c)[i] # ACK) =>
                faults'[c] = faults[c] + 1]_vars

\* the Selector has raised a fault while operating and the supervisor has
\* received its report in a barrier
C17_Witness ==
    /\ faults["Selector"] = 1
    /\ errSeen
    /\ pc = "loop"

\* C18: when a character overflows the line on the last line of the page
\* the Feeder is commanded to eject the page and to load paper and answers
\* both commands with ACK: every answer of the Feeder to a PAPER command is
\* ACK.
C18_PageEjectAcknowledged ==
    LET first == Len(outq["Feeder"]) - Len(answered["Feeder"]) IN
    \A i \in 1..Len(answered["Feeder"]) :
        answered["Feeder"][i][1] = "PAPER" => outq["Feeder"][first + i] = ACK

\* C19: whatever happens in the Input thread after its startup, cub_loop
\* processes as a character only a cell, BACKSPACE or END OF INPUT, and no
\* column command is built from anything else.
C19_OnlyCellsProcessed ==
    /\ pc = "exec" =>
          next_char \in {BACKSPACE, END_OF_INPUT} \/ IsCell(next_char)
    /\ \A i \in 1..Len(pending["Selector"]) :
          pending["Selector"][i][1] = "MOVE" =>
              BitsOf(pending["Selector"][i][2]) # <<>>

\* C20: the keys <uppercase>, t, h, i, s, space of the Braille keyboard,
\* printed in word-wrap mode from line 1, column 0 on a line of more than
\* six cells: as long as no operation fails, each of the five cells adds
\* exactly two Selector commands and one column advance of the Traverser
\* (besides the character advance before every cell but the first), the
\* space test of print_char is made once, for the sixth character at
\* column 6, and current_char ends at 6.
C20_RoundTrip ==
    /\ (pc = "exec" /\ todo = <<>> /\ ~errSeen /\ next_char # END_OF_INPUT) =>
          /\ current_line = 1
          /\ current_char = Taken
          /\ sent["Feeder"] = 0
          /\ Taken <= 5 =>
                /\ sent["Selector"] = 2 * Taken
                /\ sent["Traverser"] = 2 * Taken - 1
                /\ currentStep = STEPS_BETWEEN_COLUMN * Taken
                                   + STEPS_BETWEEN_CHAR * (Taken - 1)
          /\ Taken = 6 =>
                /\ sent["Selector"] = 10
                /\ sent["Traverser"] = 12
    /\ (AtOp("pchar") /\ Head(todo).s = SPACE) =>
          Taken = 6 /\ current_char = 6

\* the six characters have been processed without a failure
C20_Witness ==
    /\ pc = "exec"
    /\ todo = <<>>
    /\ ~errSeen
    /\ next_char = SPACE
    /\ Taken = 6
    /\ current_char = 6
    /\ sent["Selector"] = 10

\* the number of END OF INPUT messages in a sequence of messages
EndCount(q) == Len(SelectSeq(q, LAMBDA m : m = END_OF_INPUT))

\* END OF INPUT waits at the end of the Input pipe, or it is the character
\* the supervisor has received
EndDelivered ==
    \/ /\ outq["Input"] # <<>>
       /\ outq["Input"][Len(outq["Input"])] = END_OF_INPUT
       /\ EndCount(outq["Input"]) = 1
    \/ /\ next_char = END_OF_INPUT
       /\ outq["Input"] = <<>>

\* C21: on every exit path of the Input thread the last message it places on
\* its pipe is END OF INPUT and it places it exactly once: the step that
\* ends the thread appends messages of which the last, and only the last,
\* is END OF INPUT, no other step of the thread appends END OF INPUT, and
\* once the thread has ended END OF INPUT either waits at the end of the
\* pipe or is the character the supervisor has received.
C21_EndOfInputLast ==
    [][LET added == Appended("Input") IN
          /\ IF cstate["Input"] # "dead" /\ cstate'["Input"] = "dead"
             THEN /\ added # <<>>
                  /\ added[Len(added)] = END_OF_INPUT
                  /\ EndCount(added) = 1
             ELSE /\ EndCount(added) = 0
                  /\ cstate["Input"] = "dead" => added = <<>>
          /\ cstate'["Input"] = "dead" => EndDelivered']_vars

\* the Input thread has ended on a close request while reading, and the
\* supervisor has received everything it sent
C21_Witness ==
    /\ cstate["Input"] = "dead"
    /\ closeSent["Input"] = 1
    /\ inputLeft < MaxInput
    /\ outq["Input"] # <<>>
    /\ Len(outq["Input"]) = 2

\* C22: when head_next_char returns, in the overflow branch and in the
\* fits-on-line branch alike, the Selector and the Traverser have no
\* outstanding task.
C22_HeadArrivedOnReturn ==
    [][(AtOp("hnc") /\ todo' # todo) =>
          tasks'["Selector"] = 0 /\ tasks'["Traverser"] = 0]_vars

\* the events a step of the supervisor adds
NewEvents ==
    IF Len(events') > Len(events)
    THEN SubSeq(events', Len(events) + 1, Len(events'))
    ELSE <<>>

\* C27: in the overflow branch of head_next_char the Selector HOME is
\* dispatched first, then the Feeder command or commands, then the
\* Traverser HOME.
C27_OverflowOrder ==
    [][(AtOp("hnc") /\ todo' # todo
          /\ current_char + Head(todo).n > get_paper_size) =>
          /\ Len(NewEvents) >= 3
          /\ NewEvents[1] = <<"Selector", "HOME">>
          /\ NewEvents[Len(NewEvents)] = <<"Traverser", "HOME">>
          /\ \A i \in 2..(Len(NewEvents) - 1) : NewEvents[i][1] = "Feeder"]_vars

\* C23: when task_barrier receives a message other than ACK from a
\* component it raises an OperationError that names the component and
\* carries the message, makes no further receive, and leaves every counter
\* as it was before that receive.
C23_BarrierFailure ==
    [][(AtOp("recv") /\ todo' # todo /\ outq[Head(todo).s] # <<>>
          /\ Head(outq[Head(todo).s]) # ACK) =>
          /\ raised' = [component |-> Head(todo).s, operation |-> "",
                        message |-> Head(outq[Head(todo).s])]
          /\ tasks' = tasks
          /\ acked' = acked
          /\ \A i \in 1..Len(todo') : todo'[i].op # "recv"
          /\ \A c \in Threads : c # Head(todo).s => outq'[c] = outq[c]]_vars

\* a barrier has raised the failure of the Selector while a command of the
\* Traverser was still outstanding
C23_Witness ==
    /\ raised.component = "Selector"
    /\ raised.message = ErrorMsg("Selector")
    /\ tasks["Selector"] = 1
    /\ tasks["Traverser"] = 1
    /\ outq["Traverser"] # <<>>

\* C24: in no-wrap mode the word buffer is empty after each space cell has
\* been processed.
C24_BufferFlushed ==
    (~word_wrap /\ pc = "loop" /\ last_char = SPACE) => word_buffer = <<>>

\* what print_char does for a cell, in order, when no operation fails
CellEvents(char) ==
    << <<"Selector", "MOVE", LeftHalf(char)>>, <<"BARRIER">>, <<"ACTIVATE">>,
       <<"Traverser", "MOVE", "COL", "POS">>,
       <<"Selector", "MOVE", RightHalf(char)>>, <<"BARRIER">>, <<"ACTIVATE">> >>

\* the events of the current character from its first column-select on
SinceSelect ==
    LET first == {i \in 1..Len(events) :
                     events[i][1] = "Selector" /\ events[i][2] = "MOVE"}
    IN  IF first = {} THEN <<>>
        ELSE SubSeq(events,
                    CHOOSE i \in first : \A j \in first : i <= j,
                    Len(events))

\* C25: printing one non-space cell produces, in this order, a Selector
\* column-select for the left half, a barrier, one strike, exactly one
\* Traverser column advance, a Selector column-select for the right half,
\* a barrier, one strike: at every moment what has been done for the cell
\* is the beginning of that sequence, and all of it once the cell has been
\* printed without a failure (characters printed as they are received).
C25_CellSequence ==
    (pc = "exec" /\ word_wrap /\ IsCell(next_char) /\ next_char # SPACE) =>
        /\ Len(SinceSelect) <= Len(CellEvents(next_char))
        /\ SinceSelect = SubSeq(CellEvents(next_char), 1, Len(SinceSelect))
        /\ (todo = <<>> /\ raised = NoError) =>
               SinceSelect = CellEvents(next_char)

\* a cell has been printed with both strikes, after an earlier character
C25_Witness ==
    /\ pc = "exec"
    /\ word_wrap
    /\ next_char = "100000"
    /\ todo = <<>>
    /\ raised = NoError
    /\ Len(events) = 8
    /\ events[8] = <<"ACTIVATE">>
    /\ lastPulse = "coil"

\* the head position, in steps from home, of the first column of the cell
\* with the given index: every cell before it took one column advance and
\* one character advance
CellStart(index) == index * (STEPS_BETWEEN_COLUMN + STEPS_BETWEEN_CHAR)

\* the backspace being processed began at column 0 of a line after the
\* first, and the barrier of its first print_col has returned: the
\* Traverser has made the moves dispatched for the return to the line above
BackOverLineSettled ==
    /\ next_char = BACKSPACE
    /\ Len(events) = 6
    /\ events[1] = <<"Feeder", "FEED", "1", "NEG">>
    /\ events[6] = <<"BARRIER">>

\* C26: a BACKSPACE at current_char = 0 with current_line > 1 dispatches a
\* one-line backward feed to the Feeder, a HOME to the Selector and moves
\* to the Traverser, decrements current_line by one, and the moves place
\* the head on the last cell of the line, index paper_size - 1, within the
\* paper width.
C26_BackspaceToLastCell ==
    [][/\ (AtOp("back") /\ todo' # todo /\ current_char = 0
             /\ current_line > 1) =>
             /\ current_line' = current_line - 1
             /\ Len(NewEvents) >= 3
             /\ NewEvents[1] = <<"Feeder", "FEED", "1", "NEG">>
             /\ NewEvents[2] = <<"Selector", "HOME">>
             /\ \A i \in 3..Len(NewEvents) : NewEvents[i][1] = "Traverser"
       /\ BackOverLineSettled' =>
             /\ currentStep' >= CellStart(get_paper_size - 1)
             /\ currentStep' <= CellStart(get_paper_size - 1)
                                   + STEPS_BETWEEN_COLUMN]_vars

programVars ==
    <<pc, constructed, compIdx, todo, next_char, word_wrap, tasks,
      current_line, current_char, last_char, word_buffer, inq, outq,
      cstate, cur, exitFlag, runFlag, inputLeft, currentStep, currentTool,
      dcEmergency, lastPulse, sent, acked, closeSent, errSeen, confirmed,
      initFailed, placed, boundary, pending, answered, faults, rotation,
      raised, events, dcDevice, lastStrike, before, simulate, paper, keys>>

\* constructor arguments: HeadTraverser.START_SPEED, MAX_SPEED, RAMP_RATE
\* and ToolSelector.START_SPEED, MAX_SPEED, RAMP_RATE
startSpeed(m) == IF m = "Traverser" THEN 400 ELSE 50

maxSpeed(m) == IF m = "Traverser" THEN 1200 ELSE 50

rampRate(m) == IF m = "Traverser" THEN 15 ELSE 1

\* the speed move_steps(count) hands to __step_motor in iteration i: the
\* start speed, raised after each iteration j with j < ramp_length and
\* lowered after each iteration j with j > ((count-1) - ramp_length) - 1,
\* where ramp_length = (maxSpeed - startSpeed) / rampRate
speed(m, count, i) ==
    LET span == maxSpeed(m) - startSpeed(m)
        up == {j \in 0..(i - 1) : j * rampRate(m) < span}
        down == {j \in 0..(i - 1) :
                    (j - ((count - 1) - 1)) * rampRate(m) > -span}
    IN  startSpeed(m) + rampRate(m) * (Cardinality(up) - Cardinality(down))

startup_stop_flag_kept(flag, emergency) == flag

\* __startup_motor: the stop flag after it, cleared unless the emergency
\* flag is set
startup_stop_flag(flag, emergency) == IF emergency THEN flag ELSE FALSE

loop_break_latch_only(emergency, stop) == emergency

\* the two tests at the head of each iteration of the loop of move_steps
loop_break(emergency, stop) == emergency \/ stop

\* a thread calls move_steps(count, direction) on an idle stepper
MoveSteps(m) ==
    /\ stepper[m].at = "idle"
    /\ \E count \in 0..MaxSteps :
          stepper' = [stepper EXCEPT ![m] =
              [at |-> "startup", count |-> count, i |-> 0, pulsed |-> 0,
               stopFlag |-> stepper[m].stopFlag, ret |-> 0,
               returned |-> FALSE, flagged |-> FALSE, after |-> 0,
               emergencyAtCall |-> stepperEmergency,
               stoppedDuring |-> FALSE, otherStop |-> FALSE,
               staleStop |-> stepper[m].stopFlag]]
    /\ UNCHANGED <<stepperEmergency, enable>>
    /\ UNCHANGED programVars

\* move_steps calls __startup_motor
StartupMotor(m) ==
    /\ stepper[m].at = "startup"
    /\ stepper' = [stepper EXCEPT
          ![m].at = "loop",
          ![m].stopFlag = startup_stop_flag(@, stepperEmergency)]
    /\ enable' = [enable EXCEPT ![m] = startup_motor(@, stepperEmergency)]
    /\ UNCHANGED stepperEmergency
    /\ UNCHANGED programVars

\* the head of one iteration of the loop: range(0, count) is exhausted and
\* step_count = count is returned, or a flag is set and step_count = i is
\* returned, or the iteration goes on to __step_motor
LoopTest(m) ==
    /\ stepper[m].at = "loop"
    /\ LET st == stepper[m]
       IN  stepper' = [stepper EXCEPT ![m] =
              IF st.i = st.count
              THEN [st EXCEPT !.at = "idle", !.ret = st.count,
                              !.returned = TRUE]
              ELSE IF loop_break(stepperEmergency, st.stopFlag)
              THEN [st EXCEPT !.at = "idle", !.ret = st.i,
                              !.returned = TRUE]
              ELSE [st EXCEPT !.at = "step"]]
    /\ UNCHANGED <<stepperEmergency, enable>>
    /\ UNCHANGED programVars

\* __step_motor(speed) and the rest of the iteration: with a positive speed
\* it sleeps 1/speed and pulses the STEP pin, otherwise it calls stop()
StepMotor(m) ==
    /\ stepper[m].at = "step"
    /\ LET st == stepper[m]
       IN  stepper' = [stepper EXCEPT ![m] =
              IF speed(m, st.count, st.i) > 0
              THEN [st EXCEPT !.at = "loop", !.i = st.i + 1,
                              !.pulsed = st.pulsed + 1,
                              !.after = IF st.flagged THEN st.after + 1
                                        ELSE st.after]
              ELSE [st EXCEPT !.at = "loop", !.i = st.i + 1,
                              !.stopFlag = TRUE]]
    /\ UNCHANGED <<stepperEmergency, enable>>
    /\ UNCHANGED programVars

\* another thread calls stop() on stepper m
Stop(m) ==
    /\ stepper' = [o \in Steppers |->
          IF o = m
          THEN [stepper[o] EXCEPT
                   !.stopFlag = TRUE,
                   !.stoppedDuring = @ \/ stepper[o].at # "idle",
                   !.flagged = @ \/ stepper[o].at \in {"loop", "step"}]
          ELSE [stepper[o] EXCEPT
                   !.otherStop = @ \/ stepper[o].at # "idle"]]
    /\ UNCHANGED <<stepperEmergency, enable>>
    /\ UNCHANGED programVars

\* another thread calls e_stop() on stepper m: the class flag is set and
\* __disable_motor writes the pins of m low
EStop(m) ==
    /\ stepperEmergency' = TRUE
    /\ enable' = [enable EXCEPT ![m] = FALSE]
    /\ stepper' = [o \in Steppers |->
          [stepper[o] EXCEPT
              !.flagged = @ \/ stepper[o].at \in {"loop", "step"}]]
    /\ UNCHANGED programVars

NextStepper ==
    \E m \in Steppers :
        \/ MoveSteps(m)
        \/ StartupMotor(m)
        \/ LoopTest(m)
        \/ StepMotor(m)
        \/ Stop(m)
        \/ EStop(m)

\* the steppers as constructed by HeadTraverser and ToolSelector, driven
\* and stopped in every interleaving
InitStepper == Session({TRUE}, 0, Sheet, <<>>, SIMULATE)

SpecStepper == InitStepper /\ [][NextStepper]_vars

C30_StopIsPerStepper ==
    [][/\ \A m \in Steppers :
             (stepper'[m].returned /\ ~stepper'[m].stoppedDuring
                 /\ ~stepperEmergency')
                => (stepper'[m].ret = stepper'[m].count
                      /\ stepper'[m].pulsed = stepper'[m].count)
       /\ \A m \in Steppers :
             Stop(m) => \A o \in Steppers \ {m} :
                 /\ stepper'[o].stopFlag = stepper[o].stopFlag
                 /\ stepper'[o].at = stepper[o].at
                 /\ stepper'[o].i = stepper[o].i
                 /\ stepper'[o].pulsed = stepper[o].pulsed]_vars

\* a full move made with the stop flag left set from before the call and
\* with stop() called on the other stepper while it ran
C30_Witness ==
    \E m \in Steppers :
        /\ stepper[m].returned /\ stepper[m].staleStop
        /\ stepper[m].otherStop /\ ~stepper[m].stoppedDuring
        /\ ~stepperEmergency
        /\ stepper[m].count = MaxSteps
        /\ stepper[m].pulsed = MaxSteps /\ stepper[m].ret = MaxSteps

(***************************************************************************)
(* DCOutputDevice.pulse with a duration, step by step, against stop() and  *)
(* e_stop() called from other threads.                                     *)
(***************************************************************************)
\* the variables no DCOutputDevice method touches
deviceFrame ==
    <<pc, constructed, compIdx, todo, next_char, word_wrap, tasks,
      current_line, current_char, last_char, word_buffer, inq, outq,
      cstate, cur, exitFlag, runFlag, inputLeft, currentStep, currentTool,
      stepperEmergency, lastPulse, sent, acked, closeSent, errSeen,
      confirmed, initFailed, placed, boundary, pending, answered, faults,
      rotation, raised, events, enable, stepper, lastStrike, before, simulate,
      paper, keys>>

\* a thread calls pulse(direction, duration) on an idle device: __pulse_for
\* returns -1 when the emergency flag is set and calls __enable_output
\* otherwise
PulseFor(d) ==
    /\ dcDevice[d].at = "idle"
    /\ dcDevice' = [dcDevice EXCEPT
          ![d].at = IF dcEmergency THEN "idle" ELSE "enable"]
    /\ UNCHANGED dcEmergency
    /\ UNCHANGED deviceFrame

\* __enable_output tests the emergency flag: set, it only logs an error and
\* __pulse_for goes on to wait
EnableOutput(d) ==
    /\ dcDevice[d].at = "enable"
    /\ dcDevice' = [dcDevice EXCEPT
          ![d].at = IF dcEmergency THEN "wait" ELSE "write"]
    /\ UNCHANGED dcEmergency
    /\ UNCHANGED deviceFrame

\* the branch of __enable_output taken with the flag clear: it clears the
\* stop flag and writes the ENABLE pin high
EnableWrite(d) ==
    /\ dcDevice[d].at = "write"
    /\ dcDevice' = [dcDevice EXCEPT
          ![d].at = "wait", ![d].stopFlag = FALSE, ![d].pin = TRUE]
    /\ UNCHANGED dcEmergency
    /\ UNCHANGED deviceFrame

\* stopFlag.wait(timeout=duration) returns, because the stop flag is set or
\* because the duration has passed, and __disable_output writes ENABLE low
WaitReturns(d) ==
    /\ dcDevice[d].at = "wait"
    /\ dcDevice' = [dcDevice EXCEPT ![d].at = "idle", ![d].pin = FALSE]
    /\ UNCHANGED dcEmergency
    /\ UNCHANGED deviceFrame

\* another thread calls stop() on device d: __disable_output, then the stop
\* flag of d is set
DCStop(d) ==
    /\ dcDevice' = [dcDevice EXCEPT ![d].pin = FALSE, ![d].stopFlag = TRUE]
    /\ UNCHANGED dcEmergency
    /\ UNCHANGED deviceFrame

\* another thread calls e_stop() on device d: the class flag is set, then
\* stop() of d
DCEStop(d) ==
    /\ dcEmergency' = TRUE
    /\ dcDevice' = [dcDevice EXCEPT ![d].pin = FALSE, ![d].stopFlag = TRUE]
    /\ UNCHANGED deviceFrame

NextDCOutput ==
    \E d \in DCDevices :
        \/ PulseFor(d)
        \/ EnableOutput(d)
        \/ EnableWrite(d)
        \/ WaitReturns(d)
        \/ DCStop(d)
        \/ DCEStop(d)

\* the two devices as constructed, pulsed and stopped in every interleaving
InitDCOutput == Session({TRUE}, 0, Sheet, <<>>, SIMULATE)

SpecDCOutput == InitDCOutput /\ [][NextDCOutput]_vars

\* C31: once e_stop() has been called on a DC output device, the ENABLE
\* line of every DC output device is low: the pulse in progress has ended
\* and no later pulse drives a line high
C31_AllOutputsLowAfterEStop ==
    dcEmergency => \A d \in DCDevices : ~dcDevice[d].pin

\* C32: the supervisor and the controllers interact only through the pipes:
\* no step of a controller thread changes tasks, current_line, current_char
\* or last_char, and no step of the supervisor changes the exit flag,
\* currentTool or currentStep of an actuator controller
C32_MessagePassingOnly ==
    [][/\ ControllerNext =>
             UNCHANGED <<tasks, current_line, current_char, last_char>>
       /\ MainNext =>
             /\ \A c \in Threads \ {"Input"} : exitFlag'[c] = exitFlag[c]
             /\ UNCHANGED <<currentTool, currentStep>>]_vars

\* C33: a MOVE whose motion the stepper did not carry out in full (fewer
\* steps pulsed than requested, because the emergency flag refused it) is
\* not answered with ACK and does not advance currentStep or currentTool
C33_AckOnlyFullMotion ==
    [][/\ (/\ TraverserRun
           /\ cur["Traverser"][1] = "MOVE"
           /\ LET r == traverser_run(cur["Traverser"], currentStep)
              IN  move_steps(r.steps, stepperEmergency).pulsed < r.steps)
          => /\ \A k \in 1..Len(Appended("Traverser")) :
                   Appended("Traverser")[k] # ACK
             /\ currentStep' = currentStep
       /\ (/\ SelectorRun
           /\ cur["Selector"][1] = "MOVE"
           /\ translate_tool(cur["Selector"][2]) \in 1..7
           /\ LET r == selector_run(cur["Selector"], currentTool, "reached")
              IN  move_steps(r.steps, stepperEmergency).pulsed < r.steps)
          => /\ \A k \in 1..Len(Appended("Selector")) :
                   Appended("Selector")[k] # ACK
             /\ currentTool' = currentTool]_vars

(***************************************************************************)
(* Runs in which every motor and sensor behaves nominally and the operator *)
(* does not interrupt.                                                     *)
(***************************************************************************)
\* a step in which no hardware misbehaves: the Embosser passes its startup
\* test, the startup of the Traverser, of the Selector and of the Input
\* raises nothing, and __tool_home finds the home sensor
NominalStep ==
    /\ ~initFailed'
    /\ \A c \in {"Traverser", "Selector"} :
          cstate[c] = "startup" => faults'[c] = faults[c]
    /\ cstate["Input"] = "startup" => cstate'["Input"] # "dead"
    /\ (cstate["Selector"] = "busy"
            /\ faults'["Selector"] # faults["Selector"])
          => ~selector_run(cur["Selector"], currentTool, "reached").ok

NominalNext ==
    /\ \/ MainNext
       \/ ControllerNext
       \/ InputStartup \/ InputStart \/ InputChar \/ InputEnd
    /\ NominalStep

InitNominal ==
    Session(BOOLEAN, NominalInput,
            [size |-> PaperCells, length |-> NominalLines], <<>>, SIMULATE)

SpecNominal == InitNominal /\ [][NominalNext]_vars

\* C34: with no hardware fault every run on a finite input terminates: as
\* long as main has not returned with every component thread it started
\* ended, some thread can take a step
C34_Terminates ==
    \/ ENABLED NominalNext
    \/ pc = "done" /\ \A c \in Threads : cstate[c] \in {"new", "dead"}

\* C35: in no-wrap mode the cells of a final word are embossed before the
\* session ends: when cub_loop receives END OF INPUT right after a cell
\* other than a space, which is waiting in word_buffer, it prints the
\* buffered word
C35_FinalWordEmbossed ==
    [][(/\ CubLoopRecv
        /\ ~word_wrap
        /\ next_char' = END_OF_INPUT
        /\ IsCell(last_char) /\ last_char # SPACE)
          => todo' # <<>>]_vars

\* the embosser activations of print_col among the events of the character
\* being processed
Strikes == Len(SelectSeq(events, LAMBDA e : e = <<"ACTIVATE">>))

\* C36: within one line the left column of a cell is struck at a head
\* position strictly greater than the position at which the right column of
\* the cell printed before it on that line was struck
C36_NoOverstrike ==
    [][(/\ Activate
        /\ next_char # BACKSPACE
        /\ Strikes % 2 = 0
        /\ lastStrike >= 0)
          => currentStep > lastStrike]_vars

(***************************************************************************)
(* The head position on a sheet of A4: the runs without hardware fault in  *)
(* which the sheet has the size Feeder.get_paper_size reports in a         *)
(* simulated Feeder and the input device delivers spaces.                  *)
(***************************************************************************)
A4Sheet == [size |-> A4_CELLS, length |-> A4_LINES]

\* the character the input device delivers is a space
SpacesStep ==
    inputLeft' < inputLeft =>
        \E q \in {outq["Input"]} : outq'["Input"] = Append(q, SPACE)

SpacesNext == NominalNext /\ SpacesStep

InitSpaces == Session({TRUE}, SpacesInput, A4Sheet, <<>>, SIMULATE)

SpecSpaces == InitSpaces /\ [][SpacesNext]_vars

\* C37: once the Traverser has finished its startup, the head position it
\* tracks, currentStep, is at least 0 and at most MAX_TRAV_STEPS.
C37_HeadWithinTravel ==
    cstate["Traverser"] \notin {"new", "startup"}
        => currentStep \in 0..MAX_TRAV_STEPS

\* C38: in word-wrap mode, when a BACKSPACE follows a cell that was printed
\* without a line wrap, then after the backspace current_char and the
\* Traverser's currentStep are what they were before the cell.
C38_BackspaceRestores ==
    (/\ pc = "loop" /\ last_char = BACKSPACE /\ before.ok
     /\ raised = NoError /\ TraverserSettled)
        => current_char = before.char /\ currentStep = before.step

\* C39: when the Traverser carries out a movement of more than one cell (a
\* HOME or a MOVE with a count, over more steps than from one cell to the
\* next), the Selector has no task in hand or waiting and holds the blank
\* tool 0.
C39_BlankToolOnLargeMove ==
    [][(/\ TraverserRun
        /\ \/ cur["Traverser"][1] = "HOME"
           \/ cur["Traverser"][1] = "MOVE" /\ cur["Traverser"][4] # "NULL"
        /\ traverser_run(cur["Traverser"], currentStep).steps
              > STEPS_BETWEEN_COLUMN + STEPS_BETWEEN_CHAR)
          => /\ currentTool = 0
             /\ inq["Selector"] = <<>> /\ cur["Selector"] = <<>>]_vars

\* C40: whenever the embosser coil is driven, in Embosser.startup() and in
\* print_col alike, the Traverser and the Selector are at rest: neither is
\* in its startup routine nor carrying out a command.
C40_StrikeAtRest ==
    [][((ConfirmEmbosser \/ Activate) /\ lastPulse' = "coil")
          => \A c \in {"Traverser", "Selector"} :
                cstate[c] \notin {"startup", "busy"}]_vars

============================================================================
